---- MODULE Spec2Model ----
(***************************************************************************)
(* Build orchestrator of src/backend/server.ts: the POST /api/build/stream *)
(* handler, the process runner runCommand and the file helpers it uses.    *)
(* One build session is followed from the arrival of the request to the    *)
(* end of the response stream.  The handler is an async function: every    *)
(* action below is one synchronous run of it, from one await to the next.  *)
(***************************************************************************)
EXTENDS Integers, Sequences, FiniteSets, TLC

\* ------------------------------------------------------------------ bounds
\* exit codes a process can close with are 0..MaxExit
MaxExit == 1
\* at most MaxFail external processes of one session fail (non-zero exit or spawn failure)
MaxFail == 1
\* longest path (in components below the project directory) the file system accepts
MaxDepth == 4
\* at most MaxApply applications of native patches to one native project
MaxApply == 2
\* longest output (in characters) a process writes to its stdout
MaxOut == 3

\* ------------------------------------------------------------ file system
\* The project directory is a function from paths (sequences of names,
\* relative to projectDir) to contents; Dir marks a directory, every other
\* value is the content of a regular file.
\* A content is a sequence of tokens [k, v]: k is the kind of the token and v
\* its characters.  Plain text has kind "text".
T(s) == [k |-> "text", v |-> << s >>]
Dir == << [k |-> "dir", v |-> << >>] >>

\* the empty path is the project directory itself (created at line 176)
exists(f, p) == p = << >> \/ p \in DOMAIN f
isDirectory(f, p) == p = << >> \/ (p \in DOMAIN f /\ f[p] = Dir)
isFile(f, p) == p \in DOMAIN f /\ f[p] # Dir

\* fs.writeFileSync / fs.copyFileSync / fs.mkdirSync on one path
put(f, p, v) == [q \in DOMAIN f \cup {p} |-> IF q = p THEN v ELSE f[q]]
\* fs.mkdirSync(p, { recursive: true }): p and every missing ancestor
mkdirp(f, p) ==
  [q \in DOMAIN f \cup {SubSeq(p, 1, n) : n \in 1..Len(p)} |->
     IF q \in DOMAIN f THEN f[q] ELSE Dir]
\* fs.rmSync(p, { recursive: true, force: true })
rmrf(f, p) ==
  [q \in {x \in DOMAIN f : ~(Len(p) <= Len(x) /\ SubSeq(x, 1, Len(p)) = p)} |-> f[q]]

\* readdirSync lists the names in a fixed order
NameOrder ==
  << ".git", "README.md", "android", "app", "build", "build.gradle",
     "capacitor.config.json", "dist", "frontend", "gradlew", "index.html",
     "node_modules", "out", "package.json", "public", "temp_icon.png", "web" >>

readdirSync(f, p) ==
  SelectSeq(NameOrder, LAMBDA n : Append(p, n) \in DOMAIN f)

\* copyRecursive(src, dest).  st = [fs, ok]: ok turns FALSE when a call of
\* mkdirSync or copyFileSync throws because the path is too long.
RECURSIVE copyRecursive(_, _, _)
RECURSIVE copyEntries(_, _, _, _)
copyRecursive(st, src, dest) ==
  IF ~st.ok THEN st
  ELSE IF ~exists(st.fs, src) THEN st
  ELSE IF isDirectory(st.fs, src)
    THEN IF exists(st.fs, dest)
           THEN copyEntries(st, src, dest, readdirSync(st.fs, src))
           ELSE IF Len(dest) > MaxDepth
             THEN [st EXCEPT !.ok = FALSE]
             ELSE LET made == [st EXCEPT !.fs = mkdirp(st.fs, dest)]
                  IN  copyEntries(made, src, dest, readdirSync(made.fs, src))
    ELSE IF ~exists(st.fs, dest) /\ Len(dest) > MaxDepth
           THEN [st EXCEPT !.ok = FALSE]
           ELSE [st EXCEPT !.fs = put(st.fs, dest, st.fs[src])]
copyEntries(st, src, dest, entries) ==
  IF entries = << >> THEN st
  ELSE copyEntries(copyRecursive(st, Append(src, Head(entries)),
                                     Append(dest, Head(entries))),
                   src, dest, Tail(entries))

\* ------------------------------------------------------------- JS values
\* A field of req.body.  A string is its sequence of characters (or of
\* chunks of characters); undefined, numbers and booleans keep their type.
JsUndefined == [t |-> "undefined", v |-> << >>]
JsString(chars) == [t |-> "string", v |-> chars]
JsNumber(digits) == [t |-> "number", v |-> digits]
JsBoolean(b) == [t |-> "boolean", v |-> << b >>]

\* JavaScript truthiness, as used by !x and x || y
truthy(x) ==
  CASE x.t = "undefined" -> FALSE
    [] x.t = "string"    -> x.v # << >>
    [] x.t = "number"    -> x.v # << "0" >>
    [] x.t = "boolean"   -> x.v = << "true" >>
orElse(x, dflt) == IF truthy(x) THEN x ELSE JsString(dflt)
startsWith(x, prefix) == x.v # << >> /\ Head(x.v) = prefix

\* variant of validRepoUrl without the typeof test
validRepoUrl_truthyOnly(repoUrl) == truthy(repoUrl)
\* line 160: the request is served only when this holds
validRepoUrl(repoUrl) == truthy(repoUrl) /\ repoUrl.t = "string"

\* s.replace(/\s+/g, by): every maximal run of whitespace becomes one `by`
RECURSIVE replaceWhitespace(_, _)
replaceWhitespace(s, by) ==
  IF s = << >> THEN << >>
  ELSE IF Head(s) \in {" ", "\t"}
    THEN IF Len(s) > 1 /\ s[2] \in {" ", "\t"}
           THEN replaceWhitespace(Tail(s), by)
           ELSE << by >> \o replaceWhitespace(Tail(s), by)
    ELSE << Head(s) >> \o replaceWhitespace(Tail(s), by)

\* the requests of the model
BaseRequest ==
  [ repoUrl |-> JsString(<< "https://", "example.com/acme/app.git" >>), appName |-> JsUndefined, appId |-> JsUndefined,
    orientation |-> JsUndefined, iconUrl |-> JsUndefined,
    fullscreen |-> JsUndefined, versionCode |-> JsUndefined,
    versionName |-> JsUndefined ]

Requests ==
  { BaseRequest,
    [BaseRequest EXCEPT !.repoUrl = JsUndefined],
    [BaseRequest EXCEPT !.repoUrl = JsString(<< >>)],
    [BaseRequest EXCEPT !.repoUrl = JsNumber(<< "7" >>)],
    [BaseRequest EXCEPT !.iconUrl = JsString(<< "http", "s://example.com/icon.png" >>)],
    [BaseRequest EXCEPT !.iconUrl = JsString(<< "data:image", "/png", ";base64,", "iVBORw0KGgo=" >>),
                        !.fullscreen = JsBoolean("true")],
    [BaseRequest EXCEPT !.iconUrl = JsString(<< "file", ":///icon.png" >>),
                        !.appName = JsString(<< "Acme", " ", "App" >>),
                        !.orientation = JsString(<< "landscape" >>),
                        !.fullscreen = JsBoolean("false"),
                        !.versionName = JsString(<< "2.1" >>)] }

\* lines 166-171
finalAppName(r) == orElse(r.appName, << "My", " ", "App" >>)
finalAppId(r) == orElse(r.appId, << "com.appbuilder.generated" >>)
finalOrientation(r) == orElse(r.orientation, << "portrait" >>)
isFullscreen(r) ==
  r.fullscreen = JsBoolean("true") \/ r.fullscreen = JsString(<< "true" >>)
vCode(r) == orElse(r.versionCode, << "1" >>)
vName(r) == orElse(r.versionName, << "1.0" >>)

\* ---------------------------------------------------------------- events
\* A message: its fixed text, the command string it quotes (NoCmd when it
\* quotes none) and the exit code or errno it quotes ("" when none).
NoCmd == << >>
Msg(text) == [text |-> text, cmd |-> NoCmd, code |-> ""]
NoMsg == Msg("")

\* sendEvent(res, data): one record per event written to the stream
logEvent(message, type) ==
  [type |-> "log", status |-> "", message |-> message, level |-> type,
   success |-> FALSE, downloadUrl |-> << >>]
statusEvent(s) ==
  [type |-> "status", status |-> s, message |-> NoMsg, level |-> "",
   success |-> FALSE, downloadUrl |-> << >>]
resultSuccess(downloadUrl) ==
  [type |-> "result", status |-> "", message |-> NoMsg, level |-> "",
   success |-> TRUE, downloadUrl |-> downloadUrl]
resultFailure(error) ==
  [type |-> "result", status |-> "", message |-> error, level |-> "",
   success |-> FALSE, downloadUrl |-> << >>]
\* line 161
rejectionEvent ==
  [type |-> "error", status |-> "", message |-> Msg("No Repository URL provided"),
   level |-> "", success |-> FALSE, downloadUrl |-> << >>]

\* variant of catchEvents that sends no result event
catchEvents_noResult(error) ==
  << statusEvent("ERROR"), logEvent(error, "error") >>
\* lines 461-465: the events of the catch block
catchEvents(error) ==
  << statusEvent("ERROR"), logEvent(error, "error"), resultFailure(error) >>
\* variant of finallyEnd that leaves the response open
finallyEnd_missing(n) == n
\* lines 466-468: the finally block ends the response
finallyEnd(n) == n + 1

\* -------------------------------------------------------- process runner
\* line 38: cmdStr = [command, ...args].join(' '), kept as the list of words
cmdStr(command, args) == << command >> \o args

\* variant of exitError whose message leaves the command out
exitError_noCommand(cmd, code) ==
  [text |-> "Command failed with exit code", cmd |-> NoCmd, code |-> ToString(code)]
\* line 55: the error of a close with a non-zero code
exitError(cmd, code) ==
  [text |-> "Command failed with exit code", cmd |-> cmd, code |-> ToString(code)]

\* The errors the runtime hands to the 'error' listener when the process
\* cannot be spawned: `spawn /bin/sh ENOENT`, `spawn /bin/sh EACCES`.
\* With shell: true the file named is the shell, never the command.
spawnErrors ==
  { [text |-> "spawn /bin/sh", cmd |-> NoCmd, code |-> e] : e \in {"ENOENT", "EACCES"} }
\* the code of the 'close' event that follows a failed spawn
errnoOf(err) == IF err.code = "ENOENT" THEN 0 - 2 ELSE 0 - 13

\* resolve() / reject() of the promise of line 37: only the first call settles it
settle(p, outcome) ==
  IF p.promise = "pending"
    THEN [p EXCEPT !.promise = outcome.promise, !.error = outcome.error,
                   !.settled = @ + 1]
    ELSE p

\* variant of onClose that resolves whatever the code is
onClose_ignoresCode(p, code) ==
  settle(p, [promise |-> "fulfilled", error |-> NoMsg])
\* variant of onClose that leaves the promise pending on a non-zero code
onClose_dropsFailure(p, code) ==
  IF code = 0 THEN settle(p, [promise |-> "fulfilled", error |-> NoMsg]) ELSE p
\* lines 53-56: child.on('close')
onClose(p, code) ==
  IF code = 0
    THEN settle(p, [promise |-> "fulfilled", error |-> NoMsg])
    ELSE settle(p, [promise |-> "rejected", error |-> exitError(p.cmd, code)])
\* line 57: child.on('error')
onError(p, err) == settle(p, [promise |-> "rejected", error |-> err])

\* lines 42-51: the 'data' listeners.  data.toString().split('\n'), and a
\* log entry for the trimmed text of every piece that is not blank
RECURSIVE split(_)
split(chars) ==
  IF \A i \in 1..Len(chars) : chars[i] # "\n" THEN << chars >>
  ELSE LET i == CHOOSE j \in 1..Len(chars) :
                  chars[j] = "\n" /\ \A k \in 1..j - 1 : chars[k] # "\n"
       IN  << SubSeq(chars, 1, i - 1) >> \o split(SubSeq(chars, i + 1, Len(chars)))
trim(l) ==
  LET inked == {i \in 1..Len(l) : l[i] # " "}
      first == CHOOSE i \in inked : \A j \in inked : i <= j
      last == CHOOSE i \in inked : \A j \in inked : j <= i
  IN  IF inked = {} THEN << >> ELSE SubSeq(l, first, last)
lineLog(l, type) == logEvent([text |-> "", cmd |-> l, code |-> ""], type)
RECURSIVE forEachLine(_, _)
forEachLine(lines, type) ==
  IF lines = << >> THEN << >>
  ELSE (IF trim(Head(lines)) # << >> THEN << lineLog(trim(Head(lines)), type) >> ELSE << >>)
         \o forEachLine(Tail(lines), type)
onData(data, type) == forEachLine(split(data), type)

\* lines 37-41: the process record runCommand creates.  stdout and stderr
\* are all the process writes, outRead and errRead how many characters of
\* them the 'data' listeners were handed so far; the commands of a session
\* are followed with nothing to write.
spawn(command, args, cwd) ==
  [cmd |-> cmdStr(command, args), cwd |-> cwd, state |-> "running",
   promise |-> "pending", error |-> NoMsg, settled |-> 0, spawnError |-> NoMsg,
   exitCode |-> << >>, stdout |-> << >>, stderr |-> << >>, outRead |-> 0, errRead |-> 0]

\* the commands of the pipeline
folders ==
  << "mipmap-mdpi", "mipmap-hdpi", "mipmap-xhdpi", "mipmap-xxhdpi", "mipmap-xxxhdpi" >>
projectDir == << >>
frontendDir == << "frontend" >>
androidDir == << "android" >>
resDir == << "android", "app", "src", "main", "res" >>
finalWebDirOnFs == << "web" >>
androidManifestPath == << "android", "app", "src", "main", "AndroidManifest.xml" >>
stylesPath == << "android", "app", "src", "main", "res", "values", "styles.xml" >>
buildGradlePath == << "android", "app", "build.gradle" >>
expectedApkPath ==
  << "android", "app", "build", "outputs", "apk", "debug", "app-debug.apk" >>
target(i) == resDir \o << folders[i], "ic_launcher.png" >>
targetRound(i) == resDir \o << folders[i], "ic_launcher_round.png" >>

gitClone(r) == spawn("git", << "clone" >> \o r.repoUrl.v \o << "." >>, projectDir)
npmInstall(cwd) == spawn("npm", << "install" >>, cwd)
npmRunBuild(cwd) == spawn("npm", << "run", "build" >>, cwd)
capInstall ==
  spawn("npm", << "install", "@capacitor/core", "@capacitor/cli",
                  "@capacitor/android", "--save-dev" >>, projectDir)
capInit(r) ==
  spawn("npx", << "cap", "init" >> \o finalAppName(r).v \o finalAppId(r).v
                 \o << "--web-dir", "web" >>, projectDir)
capAdd == spawn("npx", << "cap", "add", "android" >>, projectDir)
capSync == spawn("npx", << "cap", "sync" >>, projectDir)
curlIcon(r, i) ==
  spawn("sh", << "-c", "curl", "-L" >> \o r.iconUrl.v \o << "-o" >> \o target(i),
        projectDir)
cpIcon(i) == spawn("sh", << "-c", "cp" >> \o target(i) \o targetRound(i), projectDir)
chmodGradlew == spawn("chmod", << "+x", "gradlew" >>, androidDir)
gradlewAssemble == spawn("./gradlew", << "assembleDebug" >>, androidDir)

\* ------------------------------------------------- the external tools
\* The tools are black boxes: what they leave in the project directory is
\* chosen among the trees below.
tree(pairs) ==
  [p \in {x[1] : x \in pairs} |-> (CHOOSE x \in pairs : x[1] = p)[2]]
merge(f, g) ==
  [p \in DOMAIN f \cup DOMAIN g |-> IF p \in DOMAIN g THEN g[p] ELSE f[p]]
under(root, g) == [p \in {root \o q : q \in DOMAIN g} |-> g[SubSeq(p, Len(root) + 1, Len(p))]]

htmlHead == << T("<!doctype html>"), T("<head>"), T("</head>"), T("<body>") >>
\* what `git clone` may leave in the empty project directory
Repos ==
  LET htmlViewport ==
        << T("<head>"), T("<meta name=\"viewport\" content=\""),
           T("width=device-width\">"), T("</head>") >>
      htmlNoCloseHead == << T("<head>"), T("<body>") >>
      pkgBuild == << T("{"), T("\"scripts\""), T("\"build\""), T("}") >>
      pkgNoBuild == << T("{"), T("\"scripts\""), T("}") >>
      pkgInvalid == << T("{"), T("\"scripts\"") >>
      readme == << T("# readme") >>
  IN
  { tree({ << << ".git" >>, Dir >>, << << "frontend" >>, Dir >>,
           << << "frontend", "package.json" >>, pkgBuild >>,
           << << "frontend", "index.html" >>, htmlHead >> }),
    tree({ << << ".git" >>, Dir >>, << << "frontend" >>, Dir >>,
           << << "frontend", "index.html" >>, htmlHead >>,
           << << "package.json" >>, pkgBuild >> }),
    tree({ << << ".git" >>, Dir >>, << << "package.json" >>, pkgBuild >>,
           << << "README.md" >>, readme >> }),
    tree({ << << ".git" >>, Dir >>, << << "package.json" >>, pkgNoBuild >>,
           << << "dist" >>, Dir >>, << << "dist", "index.html" >>, htmlViewport >> }),
    tree({ << << ".git" >>, Dir >>, << << "package.json" >>, pkgInvalid >> }),
    tree({ << << ".git" >>, Dir >>, << << "public" >>, Dir >>,
           << << "public", "index.html" >>, htmlNoCloseHead >> }),
    tree({ << << ".git" >>, Dir >>, << << "public" >>, Dir >>,
           << << "public", "index.html" >>, Dir >> }),
    tree({ << << ".git" >>, Dir >>, << << "index.html" >>, htmlHead >> }),
    tree({ << << ".git" >>, Dir >>, << << "dist" >>, Dir >>,
           << << "dist", "index.html" >>, htmlHead >> }),
    tree({ << << ".git" >>, Dir >>, << << "README.md" >>, readme >> }) }

\* what `npm run build` may leave in its working directory
BuildOutputs ==
  { tree({}),
    tree({ << << "dist" >>, Dir >>, << << "dist", "index.html" >>, htmlHead >> }),
    tree({ << << "dist" >>, Dir >>, << << "dist", "app" >>, << T("bundle") >> >> }) }

binary(name) == << [k |-> "binary", v |-> << name >>] >>

\* the native project `npx cap add android` generates
androidFull ==
  LET gradleText ==
        << T("android {"), T("defaultConfig {"), [k |-> "versionCode", v |-> << "1" >>],
           [k |-> "versionName", v |-> << "1.0" >>], T("}"), T("}") >>
      manifestText ==
        << T("<manifest>"), T("<activity"), T("android:name=\".MainActivity\">") >>
      stylesText ==
        << T("<style name=\"AppTheme.NoActionBar\""), T("parent=\"AppTheme.NoActionBar\""),
           T(">"), T("</style>") >>
  IN
  mkdirp(mkdirp(mkdirp(mkdirp(mkdirp(mkdirp(
    tree({ << androidDir, Dir >>,
           << << "android", "gradlew" >>, binary("gradlew") >>,
           << << "android", "build.gradle" >>, << T("buildscript {}") >> >>,
           << buildGradlePath, gradleText >>,
           << androidManifestPath, manifestText >>,
           << stylesPath, stylesText >> }),
    resDir \o << "mipmap-anydpi-v26" >>),
    resDir \o << folders[1] >>), resDir \o << folders[2] >>),
    resDir \o << folders[3] >>), resDir \o << folders[4] >>),
    resDir \o << folders[5] >>)
\* the second has no gradlew and a styles.xml that readFileSync cannot read
\* (a directory), the third lacks one density bucket, the fourth holds
\* nothing but gradlew
Androids ==
  { androidFull,
    mkdirp(rmrf(rmrf(androidFull, << "android", "gradlew" >>), stylesPath), stylesPath),
    rmrf(androidFull, resDir \o << folders[2] >>),
    tree({ << androidDir, Dir >>, << << "android", "gradlew" >>, binary("gradlew") >> }) }

\* The project directory after process p closed with `code`.
effects(p, code, f, r) ==
  IF p.cmd = gitClone(r).cmd
    THEN IF code = 0 THEN {merge(f, g) : g \in Repos} ELSE {f}
  ELSE IF p.cmd = npmInstall(p.cwd).cmd \/ p.cmd = capInstall.cmd
    THEN IF code = 0 THEN {mkdirp(f, p.cwd \o << "node_modules" >>)} ELSE {f}
  ELSE IF p.cmd = npmRunBuild(p.cwd).cmd
    THEN IF code = 0 THEN {merge(f, under(p.cwd, g)) : g \in BuildOutputs} ELSE {f}
  ELSE IF p.cmd = capInit(r).cmd
    THEN IF code = 0
           THEN {put(f, << "capacitor.config.json" >>, << T("{"), T("}") >>)}
           ELSE {f}
  ELSE IF p.cmd = capAdd.cmd
    THEN IF code = 0 THEN {merge(f, g) : g \in Androids} ELSE {f}
  ELSE IF \E i \in 1..Len(folders) : p.cmd = curlIcon(r, i).cmd
    THEN LET i == CHOOSE j \in 1..Len(folders) : p.cmd = curlIcon(r, j).cmd
         IN  IF code = 0 /\ isDirectory(f, resDir \o << folders[i] >>)
               THEN {put(f, target(i), binary("icon"))}
               ELSE {f}
  ELSE IF \E i \in 1..Len(folders) : p.cmd = cpIcon(i).cmd
    THEN LET i == CHOOSE j \in 1..Len(folders) : p.cmd = cpIcon(j).cmd
         IN  IF code = 0 /\ exists(f, target(i))
               THEN {put(f, targetRound(i), f[target(i)])}
               ELSE {f}
  ELSE IF p.cmd = gradlewAssemble.cmd
    THEN {f, put(mkdirp(f, SubSeq(expectedApkPath, 1, Len(expectedApkPath) - 1)),
                 expectedApkPath, binary("apk"))}
  ELSE {f}

\* ------------------------------------------------------- text helpers
includes(c, tok) == \E i \in 1..Len(c) : c[i] = tok
indexOf(c, P(_)) == CHOOSE i \in 1..Len(c) : P(c[i]) /\ \A j \in 1..(i - 1) : ~P(c[j])
\* content.replace(x, by): the first token satisfying P becomes the tokens `by`
replaceFirst(c, P(_), by(_)) ==
  IF \E i \in 1..Len(c) : P(c[i])
    THEN LET i == indexOf(c, P)
         IN  SubSeq(c, 1, i - 1) \o by(c[i]) \o SubSeq(c, i + 1, Len(c))
    ELSE c

\* JSON.parse of a package.json
jsonParses(c) == Len(c) >= 2 /\ c[1] = T("{") /\ c[Len(c)] = T("}")
hasBuildScript(c) == includes(c, T("\"scripts\"")) /\ includes(c, T("\"build\""))
jsonError == Msg("Unexpected end of JSON input")
nameTooLong == [text |-> "ENAMETOOLONG: name too long, mkdir", cmd |-> NoCmd, code |-> "ENAMETOOLONG"]

\* ------------------------------------------------ structure detection
hasRootPkg(f) == exists(f, << "package.json" >>)
\* variant of hasFrontend that lets a root package.json win over ./frontend
hasFrontend_unlessRootPkg(f) ==
  exists(f, frontendDir) /\ isDirectory(f, frontendDir) /\ ~exists(f, << "package.json" >>)
hasFrontend(f) == exists(f, frontendDir) /\ isDirectory(f, frontendDir)

NoBuildDir == [found |-> FALSE, path |-> << >>]
BuildDirAt(p) == [found |-> TRUE, path |-> p]
\* lines 208-210 and 222-224
producedUnder(f, root) ==
  IF exists(f, root \o << "dist" >>) THEN BuildDirAt(root \o << "dist" >>)
  ELSE IF exists(f, root \o << "build" >>) THEN BuildDirAt(root \o << "build" >>)
  ELSE IF exists(f, root \o << "out" >>) THEN BuildDirAt(root \o << "out" >>)
  ELSE NoBuildDir
toLowerCase(n) == IF n \in {"INDEX.HTML", "Index.html"} THEN "index.html" ELSE n
\* lines 227-235
producedStatic(f) ==
  IF exists(f, << "public" >>) THEN BuildDirAt(<< "public" >>)
  ELSE IF exists(f, << "web" >>) THEN BuildDirAt(<< "web" >>)
  ELSE IF \E i \in 1..Len(readdirSync(f, projectDir)) :
            /\ isFile(f, << readdirSync(f, projectDir)[i] >>)
            /\ toLowerCase(readdirSync(f, projectDir)[i]) = "index.html"
    THEN BuildDirAt(projectDir)
  ELSE NoBuildDir

\* ------------------------------------------------------------- staging
\* A segment of the handler: the events it sent, the project directory it
\* left, and the error it threw (thrown = FALSE when it ran to its end).
Seg(ev, f) == [ev |-> ev, fs |-> f, thrown |-> FALSE, err |-> NoMsg]
Thrown(ev, f, e) == [ev |-> ev, fs |-> f, thrown |-> TRUE, err |-> e]

\* lines 246-250: the fallback copy of the top-level entries
RECURSIVE fallbackCopy(_, _)
fallbackCopy(st, files) ==
  IF files = << >> THEN st
  ELSE IF Head(files) \in {"android", "node_modules", "workspace", ".git"}
    THEN fallbackCopy(st, Tail(files))
    ELSE fallbackCopy(copyRecursive(st, << Head(files) >>,
                                    finalWebDirOnFs \o << Head(files) >>),
                      Tail(files))

redirectHtml == << T("<!doctype html>"), T("<meta http-equiv=\"refresh\" content=\"0; url=./frontend/index.html\">") >>

\* lines 238-259
stage(f, buildProducedDir) ==
  LET f1 == IF exists(f, finalWebDirOnFs) THEN f ELSE mkdirp(f, finalWebDirOnFs)
  IN  IF buildProducedDir.found /\ exists(f1, buildProducedDir.path)
        THEN LET ev == << logEvent(Msg("Copying build output to ./web ..."), "info") >>
                 st == copyRecursive([fs |-> f1, ok |-> TRUE], buildProducedDir.path,
                                     finalWebDirOnFs)
             IN  IF st.ok THEN Seg(ev, st.fs) ELSE Thrown(ev, st.fs, nameTooLong)
        ELSE LET ev == << logEvent(Msg("No build output folder detected"), "info") >>
                 st == fallbackCopy([fs |-> f1, ok |-> TRUE], readdirSync(f1, projectDir))
             IN  IF ~st.ok THEN Thrown(ev, st.fs, nameTooLong)
                 ELSE IF ~exists(st.fs, finalWebDirOnFs \o << "index.html" >>)
                         /\ exists(st.fs, << "frontend", "index.html" >>)
                   THEN Seg(ev \o << logEvent(Msg("Created index.html redirect to nested frontend index."), "info") >>,
                            put(st.fs, finalWebDirOnFs \o << "index.html" >>, redirectHtml))
                   ELSE Seg(ev, st.fs)

\* lines 268-285: the page after the safe-area injection
safeAreaCSS == T("<style>:root { --sat: env(safe-area-inset-top, 35px); }</style>")
withViewport(html) ==
  LET isViewportMeta(tok) == tok = T("<meta name=\"viewport\" content=\"")
      viewportFit(tok) == << tok, T("viewport-fit=cover, ") >>
      isHead(tok) == tok = T("<head>")
      headWithViewport(tok) ==
        << tok, T("<meta name=\"viewport\" content=\"width=device-width, initial-scale=1.0, viewport-fit=cover\">") >>
  IN  IF \E i \in 1..Len(html) : isViewportMeta(html[i])
        THEN replaceFirst(html, isViewportMeta, viewportFit)
      ELSE IF includes(html, T("<head>"))
        THEN replaceFirst(html, isHead, headWithViewport)
      ELSE html
\* lines 281-282
withSafeAreaCSS(html) ==
  LET isCloseHead(tok) == tok = T("</head>")
      beforeCloseHead(tok) == << safeAreaCSS, tok >>
  IN  replaceFirst(html, isCloseHead, beforeCloseHead)

\* variant of safeAreaInjection that writes the page back also when it has
\* no closing-head marker
safeAreaInjection_alwaysWrites(f, r) ==
  LET indexPath == finalWebDirOnFs \o << "index.html" >>
      began == << logEvent(Msg("Injecting Safe-Area Logic (Meta + CSS)..."), "info") >>
  IN  IF isFullscreen(r) \/ ~isFile(f, indexPath) THEN Seg(<< >>, f)
      ELSE Seg(began, put(f, indexPath, withSafeAreaCSS(withViewport(f[indexPath]))))
\* lines 262-292
safeAreaInjection(f, r) ==
  LET indexPath == finalWebDirOnFs \o << "index.html" >>
  IN  IF isFullscreen(r) THEN Seg(<< >>, f)
      ELSE IF ~exists(f, indexPath)
        THEN Seg(<< logEvent(Msg("index.html not found in web, skipping safe-area injection."), "info") >>, f)
      ELSE IF isDirectory(f, indexPath)
        THEN Seg(<< logEvent(Msg("Injecting Safe-Area Logic (Meta + CSS)..."), "info"),
                    logEvent(Msg("Safe-Area injection failed: EISDIR"), "error") >>, f)
      ELSE LET html == withViewport(f[indexPath])
           IN  IF includes(html, T("</head>"))
                 THEN Seg(<< logEvent(Msg("Injecting Safe-Area Logic (Meta + CSS)..."), "info"),
                             logEvent(Msg("Safe-Area Logic Injected Successfully!"), "success") >>,
                          put(f, indexPath, withSafeAreaCSS(html)))
                 ELSE Seg(<< logEvent(Msg("Injecting Safe-Area Logic (Meta + CSS)..."), "info") >>, f)

\* lines 295-300
dummyPackageJson(r) ==
  << T("{"), [k |-> "name", v |-> replaceWhitespace(finalAppName(r).v, "-")],
     [k |-> "version", v |-> vName(r).v], T("\"scripts\""), T("}") >>
ensureRootPkg(f, r) ==
  IF ~exists(f, << "package.json" >>)
    THEN Seg(<< logEvent(Msg("Root package.json not found. Creating dummy package.json."), "info") >>,
             put(f, << "package.json" >>, dummyPackageJson(r)))
    ELSE Seg(<< >>, f)

\* segments in sequence: b runs on what a left, unless a threw
then(a, b(_)) ==
  IF a.thrown THEN a
  ELSE LET n == b(a.fs) IN [n EXCEPT !.ev = a.ev \o n.ev]

\* lines 238-303: from staging to the log entry before the toolkit install
stageAndWrap(f, buildProducedDir, r) ==
  LET inject(g) == safeAreaInjection(g, r)
      ensure(g) == ensureRootPkg(g, r)
      announce(g) == Seg(<< logEvent(Msg("Installing Capacitor dependencies..."), "command") >>, g)
  IN  then(then(then(stage(f, buildProducedDir), inject), ensure), announce)

\* ------------------------------------------------- native project patches
parentOf(p) == SubSeq(p, 1, Len(p) - 1)
\* writeFileSafe (lines 79-82)
writeFileSafe(f, p, content) == put(mkdirp(f, parentOf(p)), p, content)
\* readFileSafe (lines 76-78): the content, or << >> for null
readFileSafe(f, p) == IF isFile(f, p) THEN f[p] ELSE << >>

DigitChunks == {"0", "1", "2", "3", "7", "10", "21"}
RECURSIVE dropDigits(_)
dropDigits(v) ==
  IF v # << >> /\ Head(v) \in DigitChunks THEN dropDigits(Tail(v)) ELSE v
\* /versionCode\s+\d+/
matchesVcRegex(tok) == tok.k = "versionCode" /\ tok.v # << >> /\ Head(tok.v) \in DigitChunks

\* lines 323-335: the build descriptor after the version patch
patchVersion(buildGradle, r) ==
  LET matchesVnRegex(tok) == tok.k = "versionName"     \* /versionName\s+"[^"]*"/
      matchesDefaultConfig(tok) == tok = T("defaultConfig {")   \* /defaultConfig\s*{/
      code(tok) == << [k |-> "versionCode", v |-> vCode(r).v \o dropDigits(tok.v)] >>
      fresh(tok) == << tok, [k |-> "versionCode", v |-> vCode(r).v] >>
      name(tok) == << [k |-> "versionName", v |-> vName(r).v] >>
      rest(tok) == IF dropDigits(tok.v) = << >> THEN << >>
                   ELSE << [k |-> "text", v |-> dropDigits(tok.v)] >>
      both(tok) == << [k |-> "versionCode", v |-> vCode(r).v],
                      [k |-> "versionName", v |-> vName(r).v] >> \o rest(tok)
      g1 == IF \E i \in 1..Len(buildGradle) : matchesVcRegex(buildGradle[i])
              THEN replaceFirst(buildGradle, matchesVcRegex, code)
              ELSE replaceFirst(buildGradle, matchesDefaultConfig, fresh)
  IN  IF \E i \in 1..Len(g1) : matchesVnRegex(g1[i])
        THEN replaceFirst(g1, matchesVnRegex, name)
        ELSE replaceFirst(g1, matchesVcRegex, both)

\* lines 320-343
versionPatch(f, r) ==
  IF exists(f, buildGradlePath)
    THEN IF isDirectory(f, buildGradlePath)
           THEN Seg(<< logEvent(Msg("Warning: failed to patch build.gradle: EISDIR"), "error") >>, f)
           ELSE Seg(<< logEvent(Msg("Patched build.gradle versionCode/versionName via Node fs."), "info") >>,
                    put(f, buildGradlePath, patchVersion(f[buildGradlePath], r)))
    ELSE Seg(<< logEvent(Msg("build.gradle not found, skipping version patch."), "info") >>, f)

\* /<activity\b/ matches the start of an activity and of an activity-alias tag
hasOrientation(c) == \E i \in 1..Len(c) : c[i].k = "android:screenOrientation"
\* variant of ensureAndroidManifestOrientation without the test for an existing attribute
ensureAndroidManifestOrientation_noCheck(f, manifestPath, orientation) ==
  LET content == readFileSafe(f, manifestPath)
      matchesActivity(tok) == tok \in {T("<activity"), T("<activity-alias")}
      attr(tok) == << tok, [k |-> "android:screenOrientation", v |-> orientation.v] >>
      newContent == replaceFirst(content, matchesActivity, attr)
  IN  IF content = << >> THEN [changed |-> FALSE, fs |-> f]
      ELSE IF newContent # content
        THEN [changed |-> TRUE, fs |-> writeFileSafe(f, manifestPath, newContent)]
        ELSE [changed |-> FALSE, fs |-> f]
\* ensureAndroidManifestOrientation (lines 83-90): [changed, fs]
ensureAndroidManifestOrientation(f, manifestPath, orientation) ==
  LET content == readFileSafe(f, manifestPath)
      matchesActivity(tok) == tok \in {T("<activity"), T("<activity-alias")}
      attr(tok) == << tok, [k |-> "android:screenOrientation", v |-> orientation.v] >>
      newContent == replaceFirst(content, matchesActivity, attr)
  IN  IF content = << >> THEN [changed |-> FALSE, fs |-> f]
      ELSE IF hasOrientation(content) THEN [changed |-> FALSE, fs |-> f]
      ELSE IF newContent # content
        THEN [changed |-> TRUE, fs |-> writeFileSafe(f, manifestPath, newContent)]
        ELSE [changed |-> FALSE, fs |-> f]

\* variant of manifestPatch without the test for the orientation `user`
manifestPatch_anyOrientation(f, r) ==
  IF exists(f, androidManifestPath)
    THEN LET res == ensureAndroidManifestOrientation(f, androidManifestPath, finalOrientation(r))
         IN  IF res.changed
               THEN Seg(<< logEvent(Msg("Injected android:screenOrientation into AndroidManifest.xml"), "info") >>, res.fs)
               ELSE Seg(<< logEvent(Msg("AndroidManifest already has screenOrientation or injection not needed."), "info") >>, res.fs)
    ELSE Seg(<< logEvent(Msg("AndroidManifest not found or orientation set to user; skipping manifest patch."), "info") >>, f)
\* lines 345-356
manifestPatch(f, r) ==
  IF exists(f, androidManifestPath) /\ finalOrientation(r) # JsString(<< "user" >>)
    THEN LET res == ensureAndroidManifestOrientation(f, androidManifestPath, finalOrientation(r))
         IN  IF res.changed
               THEN Seg(<< logEvent(Msg("Injected android:screenOrientation into AndroidManifest.xml"), "info") >>, res.fs)
               ELSE Seg(<< logEvent(Msg("AndroidManifest already has screenOrientation or injection not needed."), "info") >>, res.fs)
    ELSE Seg(<< logEvent(Msg("AndroidManifest not found or orientation set to user; skipping manifest patch."), "info") >>, f)

\* variant of patchStylesAppendItems without the containment test
patchStylesAppendItems_unguarded(f, path, itemsXml) ==
  LET content == readFileSafe(f, path)
      isCloseStyle(tok) == tok = T("</style>")
      items(tok) == << itemsXml, tok >>
      newContent == replaceFirst(content, isCloseStyle, items)
  IN  IF content = << >> THEN [changed |-> FALSE, fs |-> f]
      ELSE IF includes(content, T("</style>")) /\ newContent # content
        THEN [changed |-> TRUE, fs |-> writeFileSafe(f, path, newContent)]
        ELSE [changed |-> FALSE, fs |-> f]
\* patchStylesAppendItems (lines 91-100): [changed, fs]
patchStylesAppendItems(f, path, itemsXml) ==
  LET content == readFileSafe(f, path)
      isCloseStyle(tok) == tok = T("</style>")
      items(tok) == << itemsXml, tok >>
      newContent == replaceFirst(content, isCloseStyle, items)
  IN  IF content = << >> THEN [changed |-> FALSE, fs |-> f]
      ELSE IF includes(content, itemsXml) THEN [changed |-> FALSE, fs |-> f]
      ELSE IF includes(content, T("</style>")) /\ newContent # content
        THEN [changed |-> TRUE, fs |-> writeFileSafe(f, path, newContent)]
        ELSE [changed |-> FALSE, fs |-> f]

styleFix == T("<item name=\"android:windowFullscreen\">false</item><item name=\"android:windowTranslucentStatus\">false</item><item name=\"android:fitsSystemWindows\">true</item><item name=\"android:statusBarColor\">@android:color/black</item><item name=\"android:windowLightStatusBar\">false</item>")
fsItem == T("<item name=\"android:windowFullscreen\">true</item>")
\* lines 362-363: the style's parent after the swap
swapParent(stylesContent, r) ==
  LET isDefaultParent(tok) == tok = T("parent=\"AppTheme.NoActionBar\"")
      fullscreenParent(tok) == << T("parent=\"Theme.AppCompat.NoActionBar.FullScreen\"") >>
      plainParent(tok) == << T("parent=\"Theme.AppCompat.NoActionBar\"") >>
  IN  IF isFullscreen(r)
        THEN replaceFirst(stylesContent, isDefaultParent, fullscreenParent)
        ELSE replaceFirst(stylesContent, isDefaultParent, plainParent)

\* variant of stylesPatch without the try block of lines 360-376
stylesPatch_noTry(f, r) ==
  IF exists(f, stylesPath)
    THEN IF isDirectory(f, stylesPath)
           THEN Thrown(<< >>, f, Msg("EISDIR: illegal operation on a directory, read"))
           ELSE Seg(<< logEvent(Msg("Applied style tweaks via Node fs."), "info") >>, f)
    ELSE Seg(<< logEvent(Msg("styles.xml not found, skipping styles patch."), "info") >>, f)
\* lines 358-379
stylesPatch(f, r) ==
  IF exists(f, stylesPath)
    THEN IF isDirectory(f, stylesPath)
           THEN Seg(<< logEvent(Msg("Warning: failed to patch styles.xml: EISDIR"), "error") >>, f)
           ELSE LET f1 == IF includes(f[stylesPath], T("parent=\"AppTheme.NoActionBar\""))
                            THEN put(f, stylesPath, swapParent(f[stylesPath], r))
                            ELSE f
                    f2 == IF ~isFullscreen(r)
                            THEN patchStylesAppendItems(f1, stylesPath, styleFix).fs
                            ELSE patchStylesAppendItems(f1, stylesPath, fsItem).fs
                IN  Seg(<< logEvent(Msg("Applied style tweaks via Node fs."), "info") >>, f2)
    ELSE Seg(<< logEvent(Msg("styles.xml not found, skipping styles patch."), "info") >>, f)

\* ensureKotlinResolution (lines 103-146): [ok, fs]
candidates(androidRoot) ==
  << androidRoot \o << "build.gradle" >>, androidRoot \o << "app", "build.gradle" >>,
     androidRoot \o << "settings.gradle" >>, androidRoot \o << "settings.gradle.kts" >> >>
forceBlock(kotlinVersion) == [k |-> "Added by AppBuilder-AI to force Kotlin stdlib", v |-> << kotlinVersion >>]
hasMarker(c) == \E i \in 1..Len(c) : c[i].k = "Added by AppBuilder-AI to force Kotlin stdlib"
\* variant of tryCandidates that appends without looking for the marker
RECURSIVE tryCandidates_noMarker(_, _, _)
tryCandidates_noMarker(f, cs, kotlinVersion) ==
  IF cs = << >>
    THEN IF isDirectory(f, parentOf(candidates(androidDir)[1]))
              /\ ~isDirectory(f, candidates(androidDir)[1])
           THEN [ok |-> TRUE,
                 fs |-> put(f, candidates(androidDir)[1],
                            << T("// Auto-generated by AppBuilder-AI"), forceBlock(kotlinVersion) >>)]
           ELSE [ok |-> FALSE, fs |-> f]
  ELSE IF ~exists(f, Head(cs)) \/ isDirectory(f, Head(cs))
    THEN tryCandidates_noMarker(f, Tail(cs), kotlinVersion)
  ELSE [ok |-> TRUE, fs |-> put(f, Head(cs), f[Head(cs)] \o << forceBlock(kotlinVersion) >>)]
RECURSIVE tryCandidates(_, _, _)
tryCandidates(f, cs, kotlinVersion) ==
  IF cs = << >>
    THEN IF isDirectory(f, parentOf(candidates(androidDir)[1]))
              /\ ~isDirectory(f, candidates(androidDir)[1])
           THEN [ok |-> TRUE,
                 fs |-> put(f, candidates(androidDir)[1],
                            << T("// Auto-generated by AppBuilder-AI"), forceBlock(kotlinVersion) >>)]
           ELSE [ok |-> FALSE, fs |-> f]
  ELSE IF ~exists(f, Head(cs)) \/ isDirectory(f, Head(cs))
    THEN tryCandidates(f, Tail(cs), kotlinVersion)
  ELSE IF hasMarker(f[Head(cs)]) THEN [ok |-> TRUE, fs |-> f]
  ELSE [ok |-> TRUE, fs |-> put(f, Head(cs), f[Head(cs)] \o << forceBlock(kotlinVersion) >>)]
ensureKotlinResolution(f, kotlinVersion) ==
  tryCandidates(f, candidates(androidDir), kotlinVersion)

\* lines 381-388
kotlinPatch(f) ==
  LET res == ensureKotlinResolution(f, "1.8.22")
  IN  IF res.ok
        THEN Seg(<< logEvent(Msg("Applied Kotlin resolutionStrategy.force(...) to android Gradle files (helps duplicate-class)."), "info") >>, res.fs)
        ELSE Seg(<< logEvent(Msg("Failed to apply Kotlin resolution strategy; Gradle files may be missing."), "error") >>, res.fs)

\* lines 314-390: the native-patch stage up to the status of the sync stage
nativePatch(f, r) ==
  LET version(g) == versionPatch(g, r)
      manifest(g) == manifestPatch(g, r)
      styles(g) == stylesPatch(g, r)
      kotlin(g) == kotlinPatch(g)
      sync(g) == Seg(<< statusEvent("ANDROID_SYNC") >>, g)
  IN  then(then(then(then(then(Seg(<< statusEvent("APPLYING_ANDROID_CUSTOM") >>, f),
        version), manifest), styles), kotlin), sync)

\* ------------------------------------------------------------ icon stage
RECURSIVE afterLast(_, _)
\* iconUrl.split(';base64,').pop()
afterLast(chars, sep) ==
  IF \E i \in 1..Len(chars) : chars[i] = sep
    THEN afterLast(Tail(chars), sep)
    ELSE chars
\* line 423: both copies of one bucket inside one try block
RECURSIVE copyIconTo(_, _, _)
copyIconTo(f, tempIconPath, i) ==
  IF i > Len(folders) THEN f
  ELSE IF isDirectory(f, parentOf(target(i)))
    THEN copyIconTo(put(put(f, target(i), f[tempIconPath]), targetRound(i), f[tempIconPath]),
                    tempIconPath, i + 1)
    ELSE copyIconTo(f, tempIconPath, i + 1)
\* lines 412-428
dataIcon(f, r) ==
  LET base64Data == afterLast(r.iconUrl.v, ";base64,")
      tempIconPath == << "temp_icon.png" >>
      ev == << logEvent(Msg("Processing uploaded icon (Base64)..."), "info") >>
  IN  IF base64Data = << >> THEN Seg(ev, f)
      ELSE Seg(ev \o << logEvent(Msg("Custom icon applied successfully!"), "success") >>,
               copyIconTo(put(f, tempIconPath, << [k |-> "binary", v |-> base64Data] >>),
                          tempIconPath, 1))
hasIcon(f, r) == truthy(r.iconUrl) /\ r.iconUrl.t = "string" /\ exists(f, resDir)
\* lines 397-401
removeAdaptive(f) ==
  IF exists(f, resDir \o << "mipmap-anydpi-v26" >>)
    THEN Seg(<< logEvent(Msg("Removed adaptive icons to force custom icon."), "info") >>,
             rmrf(f, resDir \o << "mipmap-anydpi-v26" >>))
    ELSE Seg(<< >>, f)

gradlewMissing == Msg("gradlew script not found in android folder.")
apkMissing == Msg("APK not found after gradle assemble. Check gradle output for errors.")
renameFailed == [text |-> "EXDEV: cross-device link not permitted, rename", cmd |-> NoCmd, code |-> "EXDEV"]
\* variant of compileStage that repeats the status of the sync stage
compileStage_wrongStatus(f) ==
  LET ev == << statusEvent("ANDROID_SYNC"), logEvent(Msg("Compiling APK with Gradle..."), "command") >>
  IN  IF exists(f, androidDir \o << "gradlew" >>) THEN Seg(ev, f)
      ELSE Thrown(ev, f, gradlewMissing)
\* lines 433-442: the start of the compile stage
compileStage(f) ==
  LET ev == << statusEvent("COMPILING_APK"), logEvent(Msg("Compiling APK with Gradle..."), "command") >>
  IN  IF exists(f, androidDir \o << "gradlew" >>) THEN Seg(ev, f)
      ELSE Thrown(ev, f, gradlewMissing)
iconFailed(e) == [text |-> "Icon download/copy failed: ", cmd |-> e.cmd, code |-> e.code]

\* variant of publicApkName that keeps the whitespace of the application name
publicApkName_rawName(r) ==
  finalAppName(r).v \o << "_v" >> \o vName(r).v \o << ".apk" >>
\* line 446 and lines 450-452
publicApkName(r) ==
  replaceWhitespace(finalAppName(r).v, "_") \o << "_v" >> \o vName(r).v \o << ".apk" >>
downloadUrl(r) == << "http", "://", "localhost:7860", "/download/" >> \o publicApkName(r)
\* variant of relocate that reports success without testing for the package
relocate_noCheck(f, pub, r, renameOk) ==
  IF exists(f, expectedApkPath)
    THEN IF renameOk
           THEN [thrown |-> FALSE, err |-> NoMsg, fs |-> rmrf(f, expectedApkPath),
                 publicDir |-> put(pub, publicApkName(r), f[expectedApkPath])]
           ELSE [thrown |-> TRUE, err |-> renameFailed, fs |-> f, publicDir |-> pub]
    ELSE [thrown |-> FALSE, err |-> NoMsg, fs |-> f, publicDir |-> pub]
\* lines 444-459: the package is moved to PUBLIC_DIR when it exists;
\* renameOk tells whether fs.renameSync succeeds
relocate(f, pub, r, renameOk) ==
  IF exists(f, expectedApkPath)
    THEN IF renameOk
           THEN [thrown |-> FALSE, err |-> NoMsg, fs |-> rmrf(f, expectedApkPath),
                 publicDir |-> put(pub, publicApkName(r), f[expectedApkPath])]
           ELSE [thrown |-> TRUE, err |-> renameFailed, fs |-> f, publicDir |-> pub]
    ELSE [thrown |-> TRUE, err |-> apkMissing, fs |-> f, publicDir |-> pub]
\* lines 454-456
successEvents(r) ==
  << statusEvent("SUCCESS"), logEvent(Msg("APK generated successfully!"), "success"),
     resultSuccess(downloadUrl(r)) >>

\* ================================================================ state
VARIABLES
  pc,         \* where the handler is suspended: "idle", the awaited command, "done"
  req,        \* req.body
  events,     \* the events written to the response, in order
  ended,      \* number of calls of res.end()
  procs,      \* the processes runCommand started, in order, each with its promise
  fs,         \* the project directory WORKSPACE_DIR/<buildId>
  workspace,  \* the build directories that exist under WORKSPACE_DIR
  publicDir,  \* PUBLIC_DIR: file name -> content
  mode,       \* hasFrontend / hasRootPkg as found after the clone
  folder,     \* index of the density bucket of the icon loop
  peer        \* a second session the server runs at the same time: its request, its progress

vars == << pc, req, events, ended, procs, fs, workspace, publicDir, mode, folder, peer >>

buildId == "build-1"
cur == procs[Len(procs)]
failures == Cardinality({i \in 1..Len(procs) : procs[i].promise = "rejected"})
\* a settled promise resumes the handler before any other event is served
resumable == pc \notin {"idle", "done"} /\ cur.promise # "pending"
commandLog(p) == logEvent([text |-> "", cmd |-> p.cmd, code |-> ""], "command")

Init ==
  /\ pc = "idle"
  /\ req = BaseRequest
  /\ events = << >>
  /\ ended = 0
  /\ procs = << >>
  /\ fs = << >>
  /\ workspace = {}
  /\ publicDir = << >>
  /\ mode = "none"
  /\ folder = 0
  /\ peer = [pc |-> "idle", req |-> BaseRequest]

\* The handler runs on from project directory seg.fs: it either starts the
\* process `next` and suspends at nextPc, or it threw and ends in the catch
\* and finally blocks (lines 461-468).
finish(seg, next, nextPc) ==
  /\ fs' = seg.fs
  /\ IF seg.thrown
       THEN /\ events' = events \o seg.ev \o catchEvents(seg.err)
            /\ ended' = finallyEnd(ended)
            /\ pc' = "done"
            /\ procs' = procs
       ELSE /\ events' = events \o seg.ev \o << commandLog(next) >>
            /\ ended' = ended
            /\ pc' = nextPc
            /\ procs' = Append(procs, next)
\* the awaited promise was rejected and no try block encloses the await
caught == finish(Thrown(<< >>, fs, cur.error), cur, "done")

\* ============================================================== actions
\* lines 148-184: the request arrives; the handler runs to the await of the clone
Post(r) ==
  /\ pc = "idle"
  /\ req' = r
  /\ IF ~validRepoUrl(r.repoUrl)
       THEN /\ events' = << rejectionEvent >>
            /\ ended' = ended + 1
            /\ pc' = "done"
            /\ UNCHANGED << procs, fs, workspace, publicDir, mode, folder, peer >>
       ELSE /\ workspace' = workspace \cup {buildId}
            /\ events' = << logEvent(Msg("Starting build process ID"), "info"),
                            logEvent(Msg("Config"), "info"),
                            statusEvent("CLONING"),
                            logEvent(Msg("Cloning..."), "command"),
                            commandLog(gitClone(r)) >>
            /\ procs' = << gitClone(r) >>
            /\ pc' = "clone"
            /\ UNCHANGED << ended, fs, publicDir, mode, folder, peer >>

\* line 57: the process of procs[i] could not be spawned
ChildError(i, err) ==
  /\ ~resumable
  /\ procs[i].state = "running"
  /\ failures < MaxFail
  /\ procs' = [procs EXCEPT ![i] = [onError(@, err) EXCEPT !.state = "errored", !.spawnError = err]]
  /\ UNCHANGED << pc, req, events, ended, fs, workspace, publicDir, mode, folder, peer >>

\* lines 53-56: the process of procs[i] closes with `code`, leaving newFs
ChildClose(i, code, newFs) ==
  /\ ~resumable
  /\ procs[i].state \in {"running", "errored"}
  /\ code # 0 /\ procs[i].state = "running" => failures < MaxFail
  /\ procs' = [procs EXCEPT ![i] = [onClose(@, code) EXCEPT !.state = "closed", !.exitCode = << code >>]]
  /\ fs' = newFs
  /\ UNCHANGED << pc, req, events, ended, workspace, publicDir, mode, folder, peer >>

\* lines 208-210, 222-224, 227-235 followed by lines 238-304
stageFrom(ev, buildProducedDir) ==
  LET seg == stageAndWrap(fs, buildProducedDir, req)
  IN  finish([seg EXCEPT !.ev = ev \o seg.ev], capInstall, "capInstall")

\* lines 186-236: the clone is over; detect the structure
AfterClone ==
  /\ pc = "clone" /\ resumable
  /\ IF cur.promise = "rejected" THEN caught /\ mode' = mode
     ELSE IF hasFrontend(fs)
       THEN /\ mode' = "frontend"
            /\ finish(Seg(<< logEvent(Msg("Detected nested frontend at ./frontend. Using Nested Node.js Build Mode."), "success"),
                             statusEvent("INSTALLING_FRONTEND") >>, fs),
                      npmInstall(frontendDir), "install")
     ELSE IF hasRootPkg(fs)
       THEN /\ mode' = "root"
            /\ finish(Seg(<< logEvent(Msg("Detected package.json at project root. Using Node.js Build Mode."), "success"),
                             statusEvent("INSTALLING_ROOT") >>, fs),
                      npmInstall(projectDir), "install")
       ELSE /\ mode' = "static"
            /\ stageFrom(<< logEvent(Msg("No package.json found and no frontend/. Using Static HTML Mode."), "info") >>,
                         producedStatic(fs))
  /\ UNCHANGED << req, workspace, publicDir, folder, peer >>

buildRoot == IF mode = "frontend" THEN frontendDir ELSE projectDir
\* lines 198-207 and 215-221: the install is over; build if a build script is declared
AfterInstall ==
  /\ pc = "install" /\ resumable
  /\ LET pkgPath == buildRoot \o << "package.json" >>
         status == << statusEvent(IF mode = "frontend" THEN "BUILDING_FRONTEND" ELSE "BUILDING_ROOT") >>
         noScript == << logEvent(Msg(IF mode = "frontend"
                                       THEN "No build script in frontend/package.json. Skipping frontend build."
                                       ELSE "No build script found at root. Will try to use static files."), "info") >>
     IN  IF cur.promise = "rejected" THEN caught
         ELSE IF ~exists(fs, pkgPath)
           THEN IF mode = "frontend"
                  THEN stageFrom(status, producedUnder(fs, buildRoot))
                  ELSE finish(Thrown(status, fs, Msg("ENOENT: no such file or directory, open package.json")), cur, "done")
         ELSE IF ~jsonParses(fs[pkgPath])
           THEN finish(Thrown(status, fs, jsonError), cur, "done")
         ELSE IF hasBuildScript(fs[pkgPath])
           THEN finish(Seg(status, fs), npmRunBuild(buildRoot), "build")
           ELSE stageFrom(status \o noScript, producedUnder(fs, buildRoot))
  /\ UNCHANGED << req, workspace, publicDir, mode, folder, peer >>

\* lines 208-210 and 222-224: the build is over
AfterBuild ==
  /\ pc = "build" /\ resumable
  /\ IF cur.promise = "rejected" THEN caught
     ELSE stageFrom(<< >>, producedUnder(fs, buildRoot))
  /\ UNCHANGED << req, workspace, publicDir, mode, folder, peer >>

\* variant of AfterCapInstall that goes on after a failed install
AfterCapInstall_ignoresFailure ==
  /\ pc = "capInstall" /\ resumable
  /\ finish(Seg(<< statusEvent("CAPACITOR_INIT"),
                   logEvent(Msg("Initializing Capacitor..."), "command") >>, fs),
            capInit(req), "capInit")
  /\ UNCHANGED << req, workspace, publicDir, mode, folder, peer >>
\* lines 306-308
AfterCapInstall ==
  /\ pc = "capInstall" /\ resumable
  /\ IF cur.promise = "rejected" THEN caught
     ELSE finish(Seg(<< statusEvent("CAPACITOR_INIT"),
                        logEvent(Msg("Initializing Capacitor..."), "command") >>, fs),
                 capInit(req), "capInit")
  /\ UNCHANGED << req, workspace, publicDir, mode, folder, peer >>

\* lines 310-311
AfterCapInit ==
  /\ pc = "capInit" /\ resumable
  /\ IF cur.promise = "rejected" THEN caught
     ELSE finish(Seg(<< logEvent(Msg("Adding Android platform..."), "command") >>, fs),
                 capAdd, "capAdd")
  /\ UNCHANGED << req, workspace, publicDir, mode, folder, peer >>

\* lines 313-391: the platform is added; patch the native project, start the sync
AfterCapAdd ==
  /\ pc = "capAdd" /\ resumable
  /\ IF cur.promise = "rejected" THEN caught
     ELSE finish(nativePatch(fs, req), capSync, "sync")
  /\ UNCHANGED << req, workspace, publicDir, mode, folder, peer >>

\* lines 404-411 and 433-442: the next bucket of the icon loop, or the compile stage
nextBucket(ev, i) ==
  IF i <= Len(folders)
    THEN /\ folder' = i
         /\ finish(Seg(ev, fs), curlIcon(req, i), "curl")
    ELSE /\ folder' = folder
         /\ LET seg == compileStage(fs)
            IN  finish([seg EXCEPT !.ev = ev \o seg.ev], chmodGradlew, "chmod")

\* lines 393-442: the sync is over; apply the icon, start the compile stage
AfterSync ==
  /\ pc = "sync" /\ resumable
  /\ IF cur.promise = "rejected" THEN caught /\ folder' = folder
     ELSE IF hasIcon(fs, req)
       THEN LET rm == removeAdaptive(fs)
            IN  IF startsWith(req.iconUrl, "http")
                  THEN /\ folder' = 1
                       /\ finish(Seg(rm.ev \o << logEvent(Msg("Downloading custom icon from URL..."), "command") >>, rm.fs),
                                 curlIcon(req, 1), "curl")
                  ELSE /\ folder' = folder
                       /\ LET icon == IF startsWith(req.iconUrl, "data:image")
                                        THEN dataIcon(rm.fs, req) ELSE Seg(<< >>, rm.fs)
                              seg == compileStage(icon.fs)
                          IN  finish([seg EXCEPT !.ev = rm.ev \o icon.ev \o seg.ev],
                                     chmodGradlew, "chmod")
       ELSE /\ folder' = folder
            /\ LET seg == compileStage(fs)
               IN  finish([seg EXCEPT !.ev = << logEvent(Msg("No custom icon or android res folder missing; skipping icon step."), "info") >> \o seg.ev],
                          chmodGradlew, "chmod")
  /\ UNCHANGED << req, workspace, publicDir, mode, peer >>

\* variant of AfterCurl that starts the copy without awaiting the download
AfterCurl_noAwait ==
  /\ pc = "curl"
  /\ folder' = folder
  /\ finish(Seg(<< >>, fs), cpIcon(folder), "cp")
  /\ UNCHANGED << req, workspace, publicDir, mode, peer >>
\* lines 408-410: the download of one bucket is over
AfterCurl ==
  /\ pc = "curl" /\ resumable
  /\ IF cur.promise = "rejected"
       THEN nextBucket(<< logEvent(iconFailed(cur.error), "error") >>, folder + 1)
       ELSE /\ folder' = folder
            /\ finish(Seg(<< >>, fs), cpIcon(folder), "cp")
  /\ UNCHANGED << req, workspace, publicDir, mode, peer >>

\* variant of AfterCp in which a failed copy ends the session
AfterCp_fatal ==
  /\ pc = "cp" /\ resumable
  /\ IF cur.promise = "rejected" THEN caught /\ folder' = folder
       ELSE nextBucket(<< >>, folder + 1)
  /\ UNCHANGED << req, workspace, publicDir, mode, peer >>
\* lines 409-411: the copy of one bucket is over
AfterCp ==
  /\ pc = "cp" /\ resumable
  /\ IF cur.promise = "rejected"
       THEN nextBucket(<< logEvent(iconFailed(cur.error), "error") >>, folder + 1)
       ELSE nextBucket(<< >>, folder + 1)
  /\ UNCHANGED << req, workspace, publicDir, mode, peer >>

\* lines 438-439
\* variant of AfterChmod that starts the compile whatever chmod exited with
AfterChmod_ignoresFailure ==
  /\ pc = "chmod" /\ resumable
  /\ finish(Seg(<< >>, fs), gradlewAssemble, "compile")
  /\ UNCHANGED << req, workspace, publicDir, mode, folder, peer >>
AfterChmod ==
  /\ pc = "chmod" /\ resumable
  /\ IF cur.promise = "rejected" THEN caught
     ELSE finish(Seg(<< >>, fs), gradlewAssemble, "compile")
  /\ UNCHANGED << req, workspace, publicDir, mode, folder, peer >>

\* lines 444-468: the compile is over; publish the package
AfterCompile(renameOk) ==
  /\ pc = "compile" /\ resumable
  /\ IF cur.promise = "rejected" THEN caught /\ publicDir' = publicDir
     ELSE LET moved == relocate(fs, publicDir, req, renameOk)
          IN  /\ publicDir' = moved.publicDir
              /\ IF moved.thrown
                   THEN finish(Thrown(<< >>, moved.fs, moved.err), cur, "done")
                   ELSE /\ fs' = moved.fs
                        /\ events' = events \o successEvents(req)
                        /\ ended' = finallyEnd(ended)
                        /\ pc' = "done"
                        /\ procs' = procs
  /\ UNCHANGED << req, workspace, mode, folder, peer >>

Next ==
  \/ \E r \in Requests : Post(r)
  \/ \E i \in 1..Len(procs) : \E err \in spawnErrors : ChildError(i, err)
  \/ \E i \in 1..Len(procs) :
       /\ procs[i].state = "running"
       /\ \E code \in 0..MaxExit :
            \E newFs \in effects(procs[i], code, fs, req) : ChildClose(i, code, newFs)
  \/ \E i \in 1..Len(procs) :
       /\ procs[i].state = "errored"
       /\ ChildClose(i, errnoOf(procs[i].spawnError), fs)
  \/ AfterClone
  \/ AfterInstall
  \/ AfterBuild
  \/ AfterCapInstall
  \/ AfterCapInit
  \/ AfterCapAdd
  \/ AfterSync
  \/ AfterCurl
  \/ AfterCp
  \/ AfterChmod
  \/ \E renameOk \in BOOLEAN : AfterCompile(renameOk)

Spec == Init /\ [][Next]_vars

\* The same session when every external command exits: a process that was
\* started closes (Exit), and the runtime runs the continuation of an await
\* whose promise is settled.  Only a step of the handler leaves a state in
\* which the handler is resumable, and one is enabled in every such state,
\* so weak fairness of the handler's steps is []<>~resumable.
Exit ==
  \E i \in 1..Len(procs) :
    \/ /\ procs[i].state = "running"
       /\ \E code \in 0..MaxExit :
            \E newFs \in effects(procs[i], code, fs, req) : ChildClose(i, code, newFs)
    \/ /\ procs[i].state = "errored"
       /\ ChildClose(i, errnoOf(procs[i].spawnError), fs)
\* Two requests are followed: one without icon, and the one with the
\* longest pipeline, whose icon is downloaded.  To keep the graph small
\* the spawn failures are followed in the session without icon only.
NextLive ==
  \/ \E r \in {BaseRequest,
               [BaseRequest EXCEPT !.iconUrl = JsString(<< "http", "s://example.com/icon.png" >>)]} :
       Post(r)
  \/ /\ req = BaseRequest
     /\ \E i \in 1..Len(procs) : \E err \in spawnErrors : ChildError(i, err)
  \/ Exit
  \/ AfterClone
  \/ AfterInstall
  \/ AfterBuild
  \/ AfterCapInstall
  \/ AfterCapInit
  \/ AfterCapAdd
  \/ AfterSync
  \/ AfterCurl
  \/ AfterCp
  \/ AfterChmod
  \/ \E renameOk \in BOOLEAN : AfterCompile(renameOk)
SpecLive == Init /\ [][NextLive]_vars /\ WF_vars(Exit) /\ []<>(~resumable)

\* ------------------------------------------------- a concurrent session
\* The server runs one handler per request (line 148); each takes its own
\* uuid (line 173) and so its own project directory, and all share PUBLIC_DIR.
peerBuildId == "build-2"
\* a second valid request arrives while the first session is running
PeerPost(r) ==
  /\ pc \notin {"idle", "done"}
  /\ peer.pc = "idle"
  /\ validRepoUrl(r.repoUrl)
  /\ peer' = [pc |-> "running", req |-> r]
  /\ workspace' = workspace \cup {peerBuildId}
  /\ UNCHANGED << pc, req, events, ended, procs, fs, publicDir, mode, folder >>
\* lines 444-456 in the second session: its compile closed with code 0 and
\* left a package in its own project directory; the handler publishes it
PeerPublish ==
  /\ peer.pc = "running"
  /\ LET peerFs == put(<< >>, expectedApkPath, binary(peerBuildId))
         moved == relocate(peerFs, publicDir, peer.req, TRUE)
     IN  publicDir' = moved.publicDir
  /\ peer' = [peer EXCEPT !.pc = "done"]
  /\ UNCHANGED << pc, req, events, ended, procs, fs, workspace, mode, folder >>
NextSessions ==
  \/ Next
  \/ \E r \in Requests : PeerPost(r)
  \/ PeerPublish
SpecSessions == Init /\ [][NextSessions]_vars

\* ------------------------------------------ the native patches on their own
\* The four sub-operations of lines 320-388, applied in any order and any
\* number of times (up to MaxApply) to a native project and a request drawn
\* from the sets below.
PatchRequests ==
  { BaseRequest,
    [BaseRequest EXCEPT !.versionCode = JsString(<< "7" >>),
                        !.versionName = JsString(<< "2.1" >>),
                        !.orientation = JsString(<< "landscape" >>),
                        !.fullscreen = JsBoolean("true")],
    [BaseRequest EXCEPT !.versionCode = JsNumber(<< "21" >>),
                        !.orientation = JsString(<< "user" >>),
                        !.fullscreen = JsString(<< "true" >>)],
    [BaseRequest EXCEPT !.versionCode = JsString(<< "1", ".0" >>),
                        !.orientation = JsString(<< "user" >>)] }

\* native projects as `npx cap add android` may leave them; << >> stands for
\* a file that is absent
NativeProjects ==
  LET vc == [k |-> "versionCode", v |-> << "1" >>]
      vn == [k |-> "versionName", v |-> << "1.0" >>]
      Descriptors ==
        { << >>,
          << T("android {"), T("defaultConfig {"), vc, vn, T("}"), T("}") >>,
          << T("android {"), T("defaultConfig {"), vn, T("}"), T("}") >>,
          << T("android {"), T("defaultConfig {"), vc, T("}"), T("}") >>,
          << T("android {"), T("defaultConfig {"), T("}"), T("}") >>,
          << T("android {"), T("}") >> }
      Manifests ==
        { << >>,
          << T("<manifest>"), T("<application>") >>,
          << T("<manifest>"), T("<activity"), T("android:name=\".MainActivity\">"),
             T("<activity"), T("android:name=\".Other\">"),
             T("<activity-alias"), T("android:name=\".Alias\">") >>,
          << T("<manifest>"), T("<activity"),
             [k |-> "android:screenOrientation", v |-> << "sensor" >>],
             T("android:name=\".MainActivity\">") >> }
      StylesFiles ==
        { << >>,
          << T("<resources>") >>,
          << T("<style name=\"AppTheme\""), T(">"), T("</style>") >>,
          << T("<style name=\"AppTheme\""), T(">"), T("</style>"),
             T("<style name=\"AppTheme.NoActionBarLaunch\""),
             T("parent=\"AppTheme.NoActionBar\""), T(">"), T("</style>") >> }
      opt(f, path, content) == IF content = << >> THEN f ELSE put(f, path, content)
      base == mkdirp(mkdirp(<< >>, parentOf(androidManifestPath)), parentOf(stylesPath))
  IN  { opt(opt(opt(opt(opt(base,
              buildGradlePath, g), androidManifestPath, m), stylesPath, st),
              << "android", "build.gradle" >>, top),
              << "android", "settings.gradle" >>, settings) :
          g \in Descriptors, m \in Manifests, st \in StylesFiles,
          top \in {<< >>, << T("buildscript {}") >>},
          settings \in {<< >>, << T("include ':app'") >>} }

InitPatch ==
  /\ pc = "patch"
  /\ req \in PatchRequests
  /\ events = << >>
  /\ ended = 0
  /\ procs = << >>
  /\ fs \in NativeProjects
  /\ workspace = {buildId}
  /\ publicDir = << >>
  /\ mode = "none"
  /\ folder = 0
  /\ peer = [pc |-> "idle", req |-> BaseRequest]

\* one sub-operation runs: it leaves seg.fs and logs seg.ev
ApplyPatch(seg) ==
  /\ pc = "patch"
  /\ Len(events) < MaxApply
  /\ fs' = seg.fs
  /\ events' = events \o seg.ev
  /\ UNCHANGED << pc, req, ended, procs, workspace, publicDir, mode, folder, peer >>

NextPatch ==
  \/ ApplyPatch(versionPatch(fs, req))
  \/ ApplyPatch(manifestPatch(fs, req))
  \/ ApplyPatch(stylesPatch(fs, req))
  \/ ApplyPatch(kotlinPatch(fs))
SpecPatch == InitPatch /\ [][NextPatch]_vars

\* ------------------------------------------ the output of one command
\* what a process writes to its stdout: up to MaxOut characters
Outputs ==
  UNION {[1..n -> {"a", "b", " ", "\n"}] : n \in 0..MaxOut}
ErrOutputs == {<< >>, << "e", "\n" >>, << " ", "\n", "e" >>}
\* the clone of lines 182-184 is running
InitLines ==
  /\ pc = "clone"
  /\ req = BaseRequest
  /\ events = << logEvent(Msg("Starting build process ID"), "info"),
                logEvent(Msg("Config"), "info"),
                statusEvent("CLONING"),
                logEvent(Msg("Cloning..."), "command"),
                commandLog(gitClone(req)) >>
  /\ ended = 0
  /\ \E o \in Outputs, e \in ErrOutputs :
        procs = << [gitClone(req) EXCEPT !.stdout = o, !.stderr = e] >>
  /\ fs = << >>
  /\ workspace = {buildId}
  /\ publicDir = << >>
  /\ mode = "none"
  /\ folder = 0
  /\ peer = [pc |-> "idle", req |-> BaseRequest]

\* lines 42-45: the next n characters of stdout arrive as one chunk
StdoutData(n) ==
  /\ cur.state = "running"
  /\ n \in 1..Len(cur.stdout) - cur.outRead
  /\ events' = events \o onData(SubSeq(cur.stdout, cur.outRead + 1, cur.outRead + n), "info")
  /\ procs' = [procs EXCEPT ![Len(procs)].outRead = @ + n]
  /\ UNCHANGED << pc, req, ended, fs, workspace, publicDir, mode, folder, peer >>
\* lines 47-50: the same for stderr
StderrData(n) ==
  /\ cur.state = "running"
  /\ n \in 1..Len(cur.stderr) - cur.errRead
  /\ events' = events \o onData(SubSeq(cur.stderr, cur.errRead + 1, cur.errRead + n), "error")
  /\ procs' = [procs EXCEPT ![Len(procs)].errRead = @ + n]
  /\ UNCHANGED << pc, req, ended, fs, workspace, publicDir, mode, folder, peer >>

NextLines ==
  \/ \E n \in 1..MaxOut : StdoutData(n)
  \/ \E n \in 1..MaxOut : StderrData(n)
SpecLines == InitLines /\ [][NextLines]_vars

\* ------------------------------------------------ the progress bar
\* enum BuildStatus of the client (declared in ../types): each member has
\* its own name as value
BuildStatus ==
  [n \in {"IDLE", "CLONING", "INSTALLING", "BUILDING_WEB", "CAPACITOR_INIT",
          "ANDROID_SYNC", "COMPILING_APK", "SUCCESS", "ERROR"} |-> n]
\* getProgress of Terminal.tsx (lines 10-23)
getProgress(status) ==
  CASE status = BuildStatus.IDLE -> 0
    [] status = BuildStatus.CLONING -> 10
    [] status = BuildStatus.INSTALLING -> 30
    [] status = BuildStatus.BUILDING_WEB -> 50
    [] status = BuildStatus.CAPACITOR_INIT -> 65
    [] status = BuildStatus.ANDROID_SYNC -> 80
    [] status = BuildStatus.COMPILING_APK -> 90
    [] status = BuildStatus.SUCCESS -> 100
    [] status = BuildStatus.ERROR -> 100
    [] OTHER -> 0

\* =========================================================== properties
statusIndexes == {i \in 1..Len(events) : events[i].type = "status"}
resultIndexes == {i \in 1..Len(events) : events[i].type = "result"}
successSent == \E i \in resultIndexes : events[i].success
errorSent == \E i \in statusIndexes : events[i].status = "ERROR"
sessionStarted == pc # "idle" /\ validRepoUrl(req.repoUrl)
lastEvent == events[Len(events)]
\* the awaits that no try block encloses
FatalAwaits == {"clone", "install", "build", "capInstall", "capInit", "capAdd",
                "sync", "chmod", "compile"}
\* position of a status in the fixed stage order
stageOf(s) ==
  CASE s = "CLONING" -> 1
    [] s \in {"INSTALLING_FRONTEND", "INSTALLING_ROOT"} -> 2
    [] s \in {"BUILDING_FRONTEND", "BUILDING_ROOT"} -> 3
    [] s = "CAPACITOR_INIT" -> 4
    [] s = "APPLYING_ANDROID_CUSTOM" -> 5
    [] s = "ANDROID_SYNC" -> 6
    [] s = "COMPILING_APK" -> 7
    [] s = "SUCCESS" -> 8
    [] s = "ERROR" -> 9
    [] OTHER -> 0

\* C1: the status events of a session follow the fixed stage order: each
\* status names a stage later than every status before it, so no stage is
\* reported twice or after a later one, and nothing follows ERROR or SUCCESS.
C1_StatusOrder ==
  \A i \in statusIndexes : \A j \in statusIndexes :
    i < j => /\ stageOf(events[i].status) >= 1
             /\ stageOf(events[i].status) < stageOf(events[j].status)
             /\ events[i].status \notin {"SUCCESS", "ERROR"}
C1_Witness ==
  /\ pc = "done"
  /\ Cardinality(statusIndexes) = 8
  /\ successSent

\* C2: when a fatal step fails the handler sends status ERROR, one error
\* log entry and a failure result, and from the failure on the session
\* starts no process and changes no file.
fatalFailure == errorSent \/ (pc \in FatalAwaits /\ resumable /\ cur.promise = "rejected")
C2_FailureIsTerminal ==
  /\ [](errorSent =>
          /\ pc = "done"
          /\ Len(events) >= 3
          /\ \E e \in {lastEvent.message} :
               SubSeq(events, Len(events) - 2, Len(events)) = catchEvents(e)
          /\ Cardinality({i \in 1..Len(events) : events[i].type = "log"
                            /\ events[i].level = "error"
                            /\ events[i].message = lastEvent.message}) = 1)
  /\ [][fatalFailure =>
          /\ Len(procs') = Len(procs)
          /\ fs' = fs
          /\ publicDir' = publicDir
          /\ (~errorSent => events' = events \o catchEvents(cur.error))]_vars
C2_Witness ==
  /\ pc = "done"
  /\ errorSent
  /\ cur.cmd = capSync.cmd
  /\ cur.state = "errored"
  /\ lastEvent = resultFailure(cur.spawnError)

\* C3: a session that passed validation sends no result event while it
\* runs and exactly one when it ends, and that event is the last one written.
C3_OneResult ==
  sessionStarted =>
    /\ Cardinality(resultIndexes) = (IF pc = "done" THEN 1 ELSE 0)
    /\ ended >= 1 => lastEvent.type = "result"
    /\ pc = "done" => ended >= 1
C3_Witness ==
  /\ sessionStarted
  /\ pc = "done"
  /\ resultIndexes = {Len(events)}
  /\ lastEvent.success

\* C4: the response is ended exactly once on every path: never before the
\* handler is over, once when it is over, whatever stage it had reached.
C4_EndedOnce ==
  /\ ended <= 1
  /\ (pc = "done") = (ended = 1)
C4_Witness ==
  /\ pc = "done"
  /\ ended = 1
  /\ procs # << >>
  /\ cur.cmd = capAdd.cmd
  /\ cur.exitCode = << 1 >>

\* C5: a success result is sent only when the compile command closed with
\* code 0 and the package was moved from its expected path to PUBLIC_DIR.
C5_SuccessGated ==
  successSent =>
    /\ cur.cmd = gradlewAssemble.cmd
    /\ cur.exitCode = << 0 >>
    /\ publicApkName(req) \in DOMAIN publicDir
    /\ publicDir[publicApkName(req)] = binary("apk")
    /\ ~exists(fs, expectedApkPath)
C5_Witness ==
  /\ successSent
  /\ req.appName = JsString(<< "Acme", " ", "App" >>)
  /\ DOMAIN publicDir = {<< "Acme", "_", "App", "_v", "2.1", ".apk" >>}

compileFailed ==
  /\ procs # << >>
  /\ cur.cmd = gradlewAssemble.cmd
  /\ cur.spawnError = NoMsg
  /\ cur.exitCode # << >>
  /\ cur.exitCode # << 0 >>
\* C6: when the compile command closes with a non-zero code no success
\* result is sent, PUBLIC_DIR stays as it was, and the final result is a
\* failure whose message quotes the compile command.
C6_CompileFailure ==
  compileFailed =>
    /\ ~successSent
    /\ publicDir = << >>
    /\ pc = "done" =>
         /\ lastEvent.type = "result"
         /\ ~lastEvent.success
         /\ lastEvent.message.cmd = gradlewAssemble.cmd
C6_Witness ==
  /\ compileFailed
  /\ pc = "done"
  /\ exists(fs, expectedApkPath)

compiledWithoutPackage ==
  /\ pc = "compile" /\ resumable
  /\ cur.exitCode = << 0 >>
  /\ ~exists(fs, expectedApkPath)
\* C7: when the compile command closed with code 0 and the package is not
\* at its expected path, the handler ends in ERROR with a failure result,
\* sends no success result and leaves PUBLIC_DIR as it was.
C7_MissingPackage ==
  [][compiledWithoutPackage =>
       /\ events' = events \o catchEvents(apkMissing)
       /\ pc' = "done"
       /\ publicDir' = publicDir]_vars
C7_Witness ==
  /\ pc = "done"
  /\ procs # << >>
  /\ cur.cmd = gradlewAssemble.cmd
  /\ cur.exitCode = << 0 >>
  /\ lastEvent = resultFailure(apkMissing)
  /\ publicDir = << >>

\* C8: a request whose repository URL is missing, empty or not a string
\* creates no build directory, starts no process, sends no status or log
\* event and leaves the project and publish directories untouched.
C8_RejectedRequest ==
  (pc # "idle" /\ (req.repoUrl.t # "string" \/ req.repoUrl.v = << >>)) =>
    /\ workspace = {}
    /\ procs = << >>
    /\ \A i \in 1..Len(events) : events[i].type \notin {"status", "log"}
    /\ fs = << >>
    /\ publicDir = << >>
C8_Witness ==
  /\ pc = "done"
  /\ req.repoUrl = JsNumber(<< "7" >>)
  /\ ended = 1

\* C9: every event written to the response has type log, status or result.
C9_EventTypes ==
  \A i \in 1..Len(events) : events[i].type \in {"log", "status", "result"}

\* C10: every closed process settled its promise exactly once: fulfilled
\* only after a close with code 0, and otherwise rejected with an error that
\* carries the command string and the code.
C10_RunCommandSettles ==
  \A i \in 1..Len(procs) :
    procs[i].state = "closed" =>
      /\ procs[i].settled = 1
      /\ procs[i].promise = "fulfilled" => procs[i].exitCode = << 0 >>
      /\ procs[i].promise = "rejected" =>
           /\ procs[i].error.cmd = procs[i].cmd
           /\ procs[i].error.code # ""

\* C11: within the session at most one external process is running at any
\* time, it is the one started last, and a step that starts a process finds
\* no process of the session still running.
running == {i \in 1..Len(procs) : procs[i].state = "running"}
C12_DistinctArtifacts ==
  (pc = "done" /\ successSent /\ peer.pc = "done") =>
    /\ publicApkName(req) # publicApkName(peer.req)
    /\ publicDir[publicApkName(req)] = binary("apk")
    /\ publicDir[publicApkName(peer.req)] = binary(peerBuildId)

\* C13: when the clone has succeeded the mode is nested-frontend if
\* ./frontend is a directory (whether or not a root package.json exists), else
\* root-project if a root package.json exists, else static; in the first two
\* modes the handler goes on to the install in the search root without an
\* error, and in static mode no error comes from the detection (the only
\* error of that step is thrown by the copy of the staging).
cloned == pc = "clone" /\ resumable /\ cur.promise = "fulfilled"
C13_FirstMatchWins ==
  [][cloned =>
       /\ mode' = IF frontendDir \in DOMAIN fs /\ fs[frontendDir] = Dir THEN "frontend"
                  ELSE IF << "package.json" >> \in DOMAIN fs THEN "root"
                  ELSE "static"
       /\ mode' = "frontend" =>
            pc' = "install" /\ procs'[Len(procs')].cwd = << "frontend" >> /\ ended' = 0
       /\ mode' = "root" =>
            pc' = "install" /\ procs'[Len(procs')].cwd = << >> /\ ended' = 0
       /\ (mode' = "static" /\ pc' = "done") =>
            events'[Len(events')] = resultFailure(nameTooLong)]_vars
C13_Witness ==
  /\ pc = "install"
  /\ mode = "frontend"
  /\ << "package.json" >> \in DOMAIN fs
  /\ cur.cwd = frontendDir

\* C14: once the staging has run, the files of the first existing of dist,
\* build, out under the search root of the mode (static mode included) are
\* the files staged directly under ./web.
staged ==
  \E i \in 1..Len(events) :
    events[i] \in {logEvent(Msg("Copying build output to ./web ..."), "info"),
                   logEvent(Msg("No build output folder detected"), "info")}
C14_BuildOutputPriority ==
  (staged /\ mode \in {"frontend", "root", "static"}) =>
    LET root == IF mode = "frontend" THEN << "frontend" >> ELSE << >>
        found == {d \in {"dist", "build", "out"} : (root \o << d >>) \in DOMAIN fs}
        first == IF "dist" \in found THEN "dist"
                 ELSE IF "build" \in found THEN "build" ELSE "out"
    IN  found # {} =>
          \A p \in DOMAIN fs :
            (Len(p) = Len(root) + 2 /\ SubSeq(p, 1, Len(root) + 1) = root \o << first >>)
              => (<< "web", p[Len(p)] >>) \in DOMAIN fs

\* ----------------------------------------------- the patches, observed
\* a sub-operation that logs one of `texts` ran before / runs in this step
logged(texts) == \E i \in 1..Len(events) : events[i].message.text \in texts
patchStep(texts) ==
  pc = "patch" /\ events' # events /\ events'[Len(events')].message.text \in texts
versionLogs == {"Patched build.gradle versionCode/versionName via Node fs."}

\* C15: a version patch applied to a build descriptor that a version patch
\* with the same request has already rewritten leaves the project directory
\* as it is.
C15_VersionIdempotent ==
  [][(logged(versionLogs) /\ patchStep(versionLogs)) => fs' = fs]_vars

\* C16: the orientation patch, when it is called on a manifest that holds no
\* orientation attribute, puts the attribute right after the start of the
\* first activity declaration and changes nothing else; called on a manifest
\* that holds the attribute (as after a first application) or no activity, it
\* reports no change and leaves every file as it is.
injectedLog == "Injected android:screenOrientation into AndroidManifest.xml"
notInjectedLog == "AndroidManifest already has screenOrientation or injection not needed."
C16_OrientationOnce ==
  [][patchStep({injectedLog, notInjectedLog}) =>
       LET c == fs[androidManifestPath]
           attr == [k |-> "android:screenOrientation", v |-> finalOrientation(req).v]
           acts == {i \in 1..Len(c) : c[i] = T("<activity")}
           i == CHOOSE n \in acts : \A m \in acts : n <= m
       IN  IF acts = {} \/ \E n \in 1..Len(c) : c[n].k = "android:screenOrientation"
             THEN fs' = fs /\ patchStep({notInjectedLog})
             ELSE /\ fs' = [fs EXCEPT ![androidManifestPath] =
                                SubSeq(c, 1, i) \o << attr >> \o SubSeq(c, i + 1, Len(c))]
                  /\ patchStep({injectedLog})]_vars
C16_Witness ==
  /\ logged({injectedLog})
  /\ events[Len(events)].message.text = notInjectedLog
  /\ Cardinality({n \in 1..Len(fs[androidManifestPath]) :
                    fs[androidManifestPath][n].k = "android:screenOrientation"}) = 1
  /\ Cardinality({n \in 1..Len(fs[androidManifestPath]) :
                    fs[androidManifestPath][n] = T("<activity")}) = 2

\* C17: the styles file never holds the appended item block more than once,
\* and a style patch applied after a style patch with the same fullscreen
\* flag leaves every file as it is.
stylesLogs == {"Applied style tweaks via Node fs."}
blocks(c) == {n \in 1..Len(c) : c[n] \in {styleFix, fsItem}}
kotlinLogs ==
  {"Applied Kotlin resolutionStrategy.force(...) to android Gradle files (helps duplicate-class).",
   "Failed to apply Kotlin resolution strategy; Gradle files may be missing."}
gradleFiles ==
  << << "android", "build.gradle" >>, << "android", "app", "build.gradle" >>,
     << "android", "settings.gradle" >>, << "android", "settings.gradle.kts" >> >>
\* the places << file, token >> of the marker comment
markers ==
  UNION { { << n, i >> : i \in {j \in 1..Len(fs[gradleFiles[n]]) :
              fs[gradleFiles[n]][j].k = "Added by AppBuilder-AI to force Kotlin stdlib"} } :
          n \in {m \in 1..Len(gradleFiles) : gradleFiles[m] \in DOMAIN fs} }
C18_KotlinOnce ==
  /\ [](pc = "patch" => Cardinality(markers) <= 1)
  /\ [][patchStep(kotlinLogs) =>
          LET present == {n \in 1..Len(gradleFiles) : gradleFiles[n] \in DOMAIN fs}
              first == CHOOSE n \in present : \A m \in present : n <= m
              block == [k |-> "Added by AppBuilder-AI to force Kotlin stdlib", v |-> << "1.8.22" >>]
          IN  IF present = {}
                THEN fs' = put(fs, gradleFiles[1],
                               << T("// Auto-generated by AppBuilder-AI"), block >>)
              ELSE IF \E m \in markers : m[1] = first THEN fs' = fs
              ELSE fs' = [fs EXCEPT ![gradleFiles[first]] = @ \o << block >>]]_vars
C18_Witness ==
  /\ pc = "patch"
  /\ Cardinality({n \in 1..Len(events) : events[n].message.text \in kotlinLogs}) = 2
  /\ gradleFiles[1] \in DOMAIN fs
  /\ fs[gradleFiles[1]][1] = T("// Auto-generated by AppBuilder-AI")
  /\ markers = {<< 1, 2 >>}

\* C19: when the request asks for the orientation `user`, no sub-operation of
\* the native-patch stage creates, removes or rewrites the manifest: after
\* every step the manifest is what it was before the step.
skippedLog == "AndroidManifest not found or orientation set to user; skipping manifest patch."
C19_UserKeepsManifest ==
  [][(pc = "patch" /\ req.orientation = JsString(<< "user" >>)) =>
       /\ (androidManifestPath \in DOMAIN fs') = (androidManifestPath \in DOMAIN fs)
       /\ androidManifestPath \in DOMAIN fs =>
            fs'[androidManifestPath] = fs[androidManifestPath]]_vars
C19_Witness ==
  /\ pc = "patch"
  /\ req.orientation = JsString(<< "user" >>)
  /\ Len(events) = MaxApply
  /\ events[Len(events)].message.text = skippedLog
  /\ androidManifestPath \in DOMAIN fs
  /\ includes(fs[androidManifestPath], T("<activity"))
  /\ \A n \in 1..Len(fs[androidManifestPath]) :
       fs[androidManifestPath][n].k # "android:screenOrientation"

\* C20: when the download or the copy of one density bucket fails, the
\* handler goes on with the next bucket, or after the last bucket with the
\* compile stage, and sends no ERROR for it; an icon given as data reaches
\* every bucket directory that exists although one is missing.
iconAwaitFailed == pc \in {"curl", "cp"} /\ resumable /\ cur.promise = "rejected"
C20_IconBestEffort ==
  /\ [][iconAwaitFailed =>
          IF folder < Len(folders)
            THEN /\ pc' = "curl"
                 /\ folder' = folder + 1
                 /\ procs'[Len(procs')].cmd = curlIcon(req, folder + 1).cmd
                 /\ ended' = 0
            ELSE /\ \E n \in (Len(events) + 1)..Len(events') :
                      events'[n] = statusEvent("COMPILING_APK")
                 /\ \/ pc' = "chmod" /\ ended' = 0
                    \/ events'[Len(events')] = resultFailure(gradlewMissing)]_vars
  /\ [](logged({"Custom icon applied successfully!"}) =>
          \A n \in 1..Len(folders) :
            isDirectory(fs, resDir \o << folders[n] >>) =>
              target(n) \in DOMAIN fs /\ targetRound(n) \in DOMAIN fs)
C20_Witness ==
  /\ pc = "done"
  /\ successSent
  /\ Cardinality({n \in 1..Len(procs) :
                    \E b \in 1..Len(folders) : procs[n].cmd = curlIcon(req, b).cmd})
       = Len(folders)
  /\ \E n \in 1..Len(procs) :
       procs[n].cmd = curlIcon(req, 2).cmd /\ procs[n].promise = "rejected"

\* C21: the session of a root-project request (build script, dist/index.html
\* produced, orientation landscape, fullscreen false, name "Acme App",
\* version name "2.1") in which every command exited 0, the platform tool
\* generated the manifest and the styles file, and the package was there and
\* could be moved, has sent the statuses of the stages in their order, has
\* appended the safe-area item block to the styles file and the landscape
\* attribute to the manifest, and ends with a success result whose download
\* URL contains Acme_App and 2.1.
acmeRun ==
  /\ pc = "done"
  /\ req.appName = JsString(<< "Acme", " ", "App" >>)
  /\ req.versionName = JsString(<< "2.1" >>)
  /\ req.orientation = JsString(<< "landscape" >>)
  /\ req.fullscreen = JsBoolean("false")
  /\ mode = "root"
  /\ \E n \in 1..Len(procs) : procs[n].cmd = npmRunBuild(projectDir).cmd
  /\ << "dist", "index.html" >> \in DOMAIN fs
  /\ \A n \in 1..Len(procs) : procs[n].exitCode = << 0 >>
  /\ cur.cmd = gradlewAssemble.cmd
  /\ androidManifestPath \in DOMAIN fs /\ stylesPath \in DOMAIN fs
  /\ events[Len(events)] \notin {resultFailure(apkMissing), resultFailure(renameFailed)}
C21_AcmeScenario ==
  acmeRun =>
    /\ [n \in 1..Cardinality(statusIndexes) |->
          events[CHOOSE i \in statusIndexes :
                   Cardinality({j \in statusIndexes : j <= i}) = n].status]
         = << "CLONING", "INSTALLING_ROOT", "BUILDING_ROOT", "CAPACITOR_INIT",
              "APPLYING_ANDROID_CUSTOM", "ANDROID_SYNC", "COMPILING_APK", "SUCCESS" >>
    /\ includes(fs[stylesPath], styleFix)
    /\ \E n \in 1..(Len(fs[androidManifestPath]) - 1) :
         /\ fs[androidManifestPath][n] = T("<activity")
         /\ fs[androidManifestPath][n + 1] =
              [k |-> "android:screenOrientation", v |-> << "landscape" >>]
    /\ events[Len(events)].type = "result"
    /\ events[Len(events)].success
    /\ LET url == events[Len(events)].downloadUrl
       IN  /\ \E n \in 1..(Len(url) - 2) : SubSeq(url, n, n + 2) = << "Acme", "_", "App" >>
           /\ \E n \in 1..Len(url) : url[n] = "2.1"
C21_Witness == acmeRun /\ successSent /\ Len(procs) = 9

\* C22: while an external command runs, the status sent last does not name
\* a stage earlier than the command's own: the platform-add command does not
\* run under the status of the wrapping init or of an earlier stage, and an
\* icon download or copy does not run under the status of the sync or of
\* an earlier stage.
lastStatus ==
  events[CHOOSE i \in statusIndexes : \A j \in statusIndexes : j <= i].status
C22_StageHasStatus ==
  \A n \in running :
    /\ procs[n].cmd = capAdd.cmd => stageOf(lastStatus) > stageOf("CAPACITOR_INIT")
    /\ (\E b \in 1..Len(folders) : procs[n].cmd \in {curlIcon(req, b).cmd, cpIcon(b).cmd})
         => stageOf(lastStatus) > stageOf("ANDROID_SYNC")

\* C23: while the install of the project runs, the directory it runs in
\* holds a package.json; while the build runs, that package.json declares a
\* build script.
C23_InstallNeedsManifest ==
  \A n \in running :
    LET pkg == procs[n].cwd \o << "package.json" >>
    IN  /\ procs[n].cmd = npmInstall(procs[n].cwd).cmd => pkg \in DOMAIN fs
        /\ procs[n].cmd = npmRunBuild(procs[n].cwd).cmd =>
             pkg \in DOMAIN fs /\ hasBuildScript(fs[pkg])

\* C24: when no build output was detected the fallback staging copies the
\* top-level entries except the web root itself, so that after the staging
\* step the web root never contains a copy of itself.
C24_WebNotInWeb ==
  (\E i \in 1..Len(events) :
      events[i] = logEvent(Msg("No build output folder detected"), "info"))
    => finalWebDirOnFs \o finalWebDirOnFs \notin DOMAIN fs

\* C25: whichever staging branch ran, when the nested frontend has an
\* entry page the web root has one too (the redirect page at least) by the
\* time the wrapping-init command is started.
C25_EntryPageBeforeInit ==
  (\E n \in 1..Len(procs) : procs[n].cmd = capInit(req).cmd)
    => (<< "frontend", "index.html" >> \in DOMAIN fs
          => finalWebDirOnFs \o << "index.html" >> \in DOMAIN fs)

\* the project directory the staging step of lines 238-259 leaves, before
\* the safe-area injection, in a step that leaves the detection
stagedFs ==
  stage(fs, IF mode' = "static" THEN producedStatic(fs)
            ELSE producedUnder(fs, IF mode' = "frontend" THEN frontendDir ELSE projectDir))
webIndex == finalWebDirOnFs \o << "index.html" >>
injectionFailedLog == logEvent(Msg("Safe-Area injection failed: EISDIR"), "error")

\* C26: the safe-area injection is guarded and best-effort.  In the step
\* that stages the web root, when fullscreen is requested, or the web root
\* has no index.html, or the page has no closing-head marker, the entry
\* page is left as the staging wrote it; and whenever the staging itself
\* did not throw, the step goes on to the toolkit install without an ERROR
\* status, also when the injection failed and logged its failure.
C26_InjectionGuarded ==
  [][(/\ pc \in {"clone", "install", "build"}
      /\ Len(procs') > Len(procs) \/ pc' = "done"
      /\ \E i \in Len(events) + 1..Len(events') :
            events'[i].message.text \in {"Copying build output to ./web ...",
                                        "No build output folder detected"})
       => /\ ( \/ isFullscreen(req)
               \/ webIndex \notin DOMAIN stagedFs.fs
               \/ ~includes(stagedFs.fs[webIndex], T("</head>")) )
               => /\ webIndex \in DOMAIN fs' <=> webIndex \in DOMAIN stagedFs.fs
                  /\ webIndex \in DOMAIN fs' => fs'[webIndex] = stagedFs.fs[webIndex]
          /\ ~stagedFs.thrown
               => /\ pc' = "capInstall"
                  /\ \A i \in Len(events) + 1..Len(events') :
                        events'[i] # statusEvent("ERROR")
                  /\ events'[Len(events')] = commandLog(capInstall)]_vars
\* a session whose page has no closing-head marker, and a session whose
\* injection failed, both reached the toolkit install
C26_Witness ==
  /\ pc = "capInstall"
  /\ ~isFullscreen(req)
  /\ webIndex \in DOMAIN fs
  /\ logged({"Injecting Safe-Area Logic (Meta + CSS)..."})
  /\ ~logged({"Safe-Area Logic Injected Successfully!"})
  /\ ~isDirectory(fs, webIndex)
  /\ includes(fs[webIndex], T("<head>"))
  /\ fs[webIndex] = fs[<< "public", "index.html" >>]
C26_WitnessFailure ==
  /\ pc = "capInstall"
  /\ \E i \in 1..Len(events) : events[i] = injectionFailedLog
C26_WitnessFullscreen ==
  /\ pc = "capInstall"
  /\ isFullscreen(req)
  /\ webIndex \in DOMAIN fs
  /\ includes(fs[webIndex], T("</head>"))
  /\ ~includes(fs[webIndex], safeAreaCSS)

C27_WitnessSkipped ==
  /\ pc = "sync"
  /\ logged({"build.gradle not found, skipping version patch."})
  /\ logged({"styles.xml not found, skipping styles patch."})
  /\ ~exists(fs, androidManifestPath)
  /\ cur.cmd = capSync.cmd

\* C28: for a remote icon URL the download command is started at most once
\* in a session, however many density buckets there are.
C28_DownloadOnce ==
  Cardinality({n \in 1..Len(procs) :
                 \E b \in 1..Len(folders) : procs[n].cmd = curlIcon(req, b).cmd}) <= 1

\* the output lines of a stream that were delivered, in the order of the events
delivered(type) ==
  LET RECURSIVE texts(_)
      texts(evs) ==
        IF evs = << >> THEN << >>
        ELSE (IF Head(evs).type = "log" /\ Head(evs).level = type /\ Head(evs).message.text = ""
                THEN << Head(evs).message.cmd >> ELSE << >>) \o texts(Tail(evs))
  IN  texts(events)
\* the non-blank lines of all a stream carried, without the white space around them
wholeLines(chars) ==
  LET RECURSIVE inked(_)
      inked(ls) ==
        IF ls = << >> THEN << >>
        ELSE (IF trim(Head(ls)) # << >> THEN << trim(Head(ls)) >> ELSE << >>) \o inked(Tail(ls))
  IN  inked(split(chars))

\* C29: once a command's output was handed over, whatever the chunks were,
\* the lines delivered for each stream are the non-blank lines of the
\* stream, each once, whole and in order; and the command's own log entry
\* comes before them.
C29_WholeLines ==
  (cur.outRead = Len(cur.stdout) /\ cur.errRead = Len(cur.stderr))
    => /\ delivered("info") = wholeLines(cur.stdout)
       /\ delivered("error") = wholeLines(cur.stderr)
       /\ \A i \in 1..Len(events) :
             events[i].level \in {"info", "error"} /\ events[i].message.text = ""
               => \E j \in 1..i - 1 : events[j] = commandLog(cur)

\* a command of the session that was started, and one that exited 0
started(p) == \E n \in 1..Len(procs) : procs[n].cmd = p.cmd
exited0(p) == \E n \in 1..Len(procs) : procs[n].cmd = p.cmd /\ procs[n].exitCode = << 0 >>

\* C30: the prerequisites of the stages.  The wrapping-init command is
\* started only when the web root directory exists and the staging step has
\* logged its branch; the native-patch stage is entered only after the
\* platform-add command exited 0; the sync command is started only after
\* each of the four patches has logged its attempt; the compile command is
\* started only after the make-executable command exited 0.
C30_Prerequisites ==
  /\ started(capInit(req))
       => /\ isDirectory(fs, finalWebDirOnFs)
          /\ logged({"Copying build output to ./web ...", "No build output folder detected"})
          /\ logged({"Installing Capacitor dependencies..."})
  /\ (\E i \in statusIndexes : events[i].status = "APPLYING_ANDROID_CUSTOM")
       => exited0(capAdd)
  /\ started(capSync)
       => /\ exited0(capAdd)
          /\ logged(versionLogs \cup {"build.gradle not found, skipping version patch.",
                                      "Warning: failed to patch build.gradle: EISDIR"})
          /\ logged({injectedLog, notInjectedLog, skippedLog})
          /\ logged(stylesLogs \cup {"styles.xml not found, skipping styles patch.",
                                     "Warning: failed to patch styles.xml: EISDIR"})
          /\ logged(kotlinLogs)
  /\ started(gradlewAssemble) => exited0(chmodGradlew)
\* a session in which every prerequisite was needed: the compile was started
C30_Witness ==
  /\ started(capInit(req)) /\ started(capSync) /\ started(gradlewAssemble)
  /\ exited0(chmodGradlew)
  /\ cur.cmd = gradlewAssemble.cmd

\* C31: when every external command that is started exits, a session that
\* began ends: it has sent SUCCESS or ERROR and its result event and has
\* closed the stream.  And a session that has not ended and cannot go on
\* by itself is waiting for a process that is still running.
C31_Terminates ==
  /\ sessionStarted ~> ( /\ pc = "done"
                         /\ successSent \/ errorSent
                         /\ lastEvent.type = "result"
                         /\ ended = 1 )
  /\ []((sessionStarted /\ pc # "done" /\ ~resumable) => cur.state = "running")
\* a session ended after each of the nine commands it started had exited
C31_Witness ==
  /\ sessionStarted
  /\ pc = "done"
  /\ ended = 1
  /\ Len(procs) = 9
  /\ \A n \in 1..Len(procs) : procs[n].state = "closed"
  /\ lastEvent.type = "result"

\* C32: in static mode the copy of the detected directory into the web
\* root ends by itself, also when that directory is the project root, which
\* holds the web root: it does not end because the file system refuses a
\* path, and it leaves no web root nested in the web root.
C32_CopyEnds ==
  (mode = "static" /\ logged({"Copying build output to ./web ..."}))
    => /\ \A i \in 1..Len(events) : events[i] # resultFailure(nameTooLong)
       /\ \A p \in DOMAIN fs :
             \A n \in 1..Len(p) - 1 : ~(p[n] = "web" /\ p[n + 1] = "web")

\* C33: along the status events of a session the progress that getProgress
\* derives from the status never decreases.
C33_ProgressMonotone ==
  \A i, j \in statusIndexes :
    i < j => getProgress(events[i].status) <= getProgress(events[j].status)
====
